---------------------------- MODULE Spec2Model ----------------------------
(***************************************************************************)
(* Model of the Copilot SDK transport and coordination layer (Rust):       *)
(*   src/rust/src/jsonrpc.rs  - JsonRpcClient: request/notify/stop, the    *)
(*                              read worker and the write worker           *)
(*   src/rust/src/client.rs   - CopilotClient: start, start_arc, stop,     *)
(*                              create_session, reconnect, ping, the       *)
(*                              handlers installed on the engine           *)
(*   src/rust/src/session.rs  - Session: send, send_and_wait, on,          *)
(*                              subscribe, destroy, execute_tool,          *)
(*                              dispatch_event                             *)
(*                                                                         *)
(* An action is the code between two await points at which another task    *)
(* can be scheduled.  The specifications share the variables and differ in *)
(* what the host and the peer do:                                          *)
(*   Spec, SpecFair      concurrent request() calls; peer answers, closes  *)
(*   SpecStop            the host also calls stop() or force_stop()        *)
(*   SpecStart           start() on a new client, ping version check       *)
(*   SpecHandler         the peer also issues inbound requests             *)
(*   SpecTools           tool.call requests and the host's tool handlers   *)
(*   SpecSubscribers     on() and unsubscribe against event dispatch       *)
(*   SpecFaults          event dispatch with callbacks that panic          *)
(*   SpecEvents          session.event stream, subscribe(), destroy()      *)
(*   SpecSendWait(Fair)  one send_and_wait call and the turn's events      *)
(*   SpecGraceful        stop() on a connected client                      *)
(*   SpecForceStop       force_stop() at any point of a client's life      *)
(*   SpecDestroy         destroy() called twice on a session               *)
(*   SpecNotify          notify() calls and inbound notifications          *)
(*   SpecDisconnect      the engine's on_disconnect callback               *)
(*   SpecCreate          create_session / resume_session, auto_start       *)
(*   SpecRestart(Fair)   start_arc, lost connection, reconnect             *)
(*   SpecDisconnectFair  SpecDisconnect with the workers scheduled fairly  *)
(*   SpecHeaders         read_content_length on the bytes of the transport *)
(*   SpecLifecycle       start() and force_stop() overlapping              *)
(*   SpecHostStop        the host's stop() on a client with auto_restart   *)
(*   SpecStartTwice      two start() calls overlapping                     *)
(***************************************************************************)
EXTENDS Integers, Sequences, FiniteSets, TLC

(***************************************************************************)
(* Bounds of the model.                                                    *)
(***************************************************************************)
\* number of host tasks that each issue one request() (client.ping)
MaxRequests == 2
\* number of frames the peer sends in one run
MaxPeerFrames == 3
\* number of frames that may be in flight from the peer to the read worker
MaxInFlight == 1
\* number of on() callbacks a session gets (the first is installed in Init)
MaxHandlers == 2
\* number of start() calls the host makes
MaxStarts == 2
\* number of notify() calls the host makes
MaxNotifies == 2

(***************************************************************************)
(* Program constants.                                                      *)
(***************************************************************************)
\* mpsc::channel::<WriteMessage>(100)
WriteQueueCapacity == 100
\* JsonRpcError::METHOD_NOT_FOUND, JsonRpcError::INTERNAL_ERROR
METHOD_NOT_FOUND == -32601
INTERNAL_ERROR == -32603

(***************************************************************************)
(* Callers of JsonRpcClient::request.  Each call draws a fresh UUID as its *)
(* id (uuid::Uuid::new_v4), so distinct calls have distinct ids: the id of *)
(* a call is modelled by the number of the caller.                         *)
(***************************************************************************)
HostCallers == 1..MaxRequests
HandlerCaller == MaxRequests + 1
DestroyCaller == MaxRequests + 2
SendCaller == MaxRequests + 3
StartCaller == MaxRequests + 4
CreateCaller == MaxRequests + 5
DestroyAgainCaller == MaxRequests + 6
Start2Caller == MaxRequests + 7
Callers == 1..(MaxRequests + 7)

\* the sessions of the model, the session ids the peer may name, and the tool names
SessionIds == {1}
WireSessionIds == {1, 2}
ToolNames == {"t"}
WireToolNames == {"t", "u"}

(***************************************************************************)
(* JSON values that occur as ids.  request() sends Value::String(uuid);    *)
(* the peer may answer with a string, with a number, or with no id.        *)
(***************************************************************************)
StrId(n) == [t |-> "string", v |-> n]
NumId(n) == [t |-> "number", v |-> n]
NoId == [t |-> "none", v |-> 0]
NoMethod == ""

VARIABLES
    \* ---- JsonRpcClient ----
    running,        \* running: AtomicBool
    pending,        \* pending_requests: id string -> the caller whose oneshot sender is stored
    slot,           \* per call: the oneshot channel (tx, rx) of request()
    reqPc,          \* per call: position inside request()
    reqArg,         \* per call: the method and params request() was called with
    reqOut,         \* per call: what request() returned
    writeQ,         \* the mpsc queue behind write_tx
    writerPc,       \* position of write_loop
    readerPc,       \* position of read_loop
    hPc,            \* position of the RequestHandler future awaited by handle_server_request
    hReq,           \* the inbound request that handler is serving
    notifLog,       \* what the notification handler was invoked with, in order
    disconnects,    \* number of on_disconnect invocations
    \* ---- transport and peer ----
    peerInbox,      \* frames the write worker wrote and flushed to the transport
    inWire,         \* frames the peer wrote, not yet read by the read worker
    peerOpen,       \* the peer's end of the transport is open (no EOF yet)
    peerSent,       \* number of frames the peer has sent
    \* ---- CopilotClient ----
    isExternal,     \* is_external_server
    rpcInstalled,   \* rpc_client is Some
    state,          \* ConnectionState
    stopPc,         \* position inside CopilotClient::stop / force_stop
    stopKind,       \* which of the two was called
    stopTodo,       \* stop(): the sessions of its snapshot not yet destroyed
    stopErrors,     \* stop(): number of errors collected so far
    startPc,        \* position inside CopilotClient::start
    startOut,       \* what the last start() returned
    starts,         \* number of start() calls made
    startEntry,     \* history: state, spawns and installs when the last start() was entered
    spawns,         \* history: number of server processes spawned
    installs,       \* history: number of engines stored into rpc_client
    sessions,       \* the session registry: ids of the registered sessions
    sessReaders,    \* number of read guards held on the registry's RwLock
    sessWriterWaiting, \* a writer is queued on the registry's RwLock
    tasks,          \* the event-dispatch tasks spawned by the notification handler
    \* ---- Session ----
    handlers,       \* per session: the HandlerEntry list of on(), as handler ids
    nextHandlerId,  \* per session: next_handler_id
    toolHandlers,   \* per session: names of the tools with a registered handler
    permHandler,    \* per session: a permission handler is set
    destroyPc,      \* per session: position inside Session::destroy
    destroyOut,     \* per session: what destroy() returned
    receivers,      \* per session: the broadcast::Receiver values: "host" (from subscribe())
                    \* and "saw" (send_and_wait's rx), each with the events not yet taken
    sawPc,          \* position inside Session::send_and_wait
    sawLast,        \* send_and_wait: last_assistant_message (0 is None)
    sawOut,         \* what send_and_wait returned
    \* ---- history ----
    completions,    \* per call: number of responses handed to its oneshot sender
    lateDelivered,  \* kinds of frames sent after stop() returned that were dispatched
    delivered,      \* per session: the events its on() callbacks were invoked with, in order
    afterDestroy,   \* kinds of subscriber that were handed an event after destroy() returned Ok
    sawTerms,       \* the idle/error events broadcast while send_and_wait was in progress
    sawLagged,      \* send_and_wait's receiver fell behind and lost an event (Lagged)
    handlerReaders, \* per session: read guards held on the handlers RwLock
    deferred,       \* the tasks spawned by on() and by unsubscribe closures whose try_write
                    \* failed: each will push or retain under handlers.write()
    unsubscribed,   \* the handler ids whose unsubscribe closure has been called
    dispatchLog,    \* per completed dispatch_event: the event, the handlers list under
                    \* the read guard, the ids called, and those already unsubscribed
                    \* when the dispatch began
    toolLog,        \* the tool.call requests the handler looked up: the request, the
                    \* session whose tool handler was invoked (0: none), its outcome
    \* ---- client options, start_arc, reconnect, create_session ----
    autoStart,      \* auto_start
    autoRestart,    \* auto_restart
    onDisconnectSet, \* on_disconnect of the engine is Some
    arcPc,          \* position inside CopilotClient::start_arc
    rcPc,           \* position of the task spawned by spawn_disconnect_handler
    rcTodo,         \* invalidate_sessions: the sessions of its snapshot not yet notified
    createCall,     \* the create_session / resume_session call: kind, position, result,
                    \* and (history) the state and the registry when it was entered
    destroyAgain,   \* per session: destroy() has been called a second time
    notifyLog,      \* the notify() calls made: method, params and what each returned
    \* ---- history ----
    sentNotes,      \* the (method, params) pairs of the notifications the peer wrote, in order
    lostSessions,   \* the registry when the disconnect callback fired
    lostNotified,   \* the sessions dispatch_error("Connection lost") was called on, each
                    \* with the state, the number of start() calls and the live
                    \* receivers at that moment
    stopEntry,      \* the state and the registry when stop() / force_stop() was entered
    \* ---- read_loop / read_content_length, byte by byte ----
    hdrStream,      \* the bytes of the transport that have not been read yet
    hdrPc,          \* "header" (in read_content_length), "returned", "body", "exited"
    hdrLen,         \* content_length: usize
    hdrLog,         \* history: what each call of read_content_length returned
    hdrAlloc,       \* history: the sizes of the body buffers allocated
    hdrBodies,      \* history: the number of bodies read
    hdrBlock,       \* history: the lines of the first header block, as the peer wrote them
    \* ---- calls of the host that overlap other calls ----
    hostStop,       \* the host's own stop(): pc, and spawns / installs when it returned
    start2Pc,       \* a second start() call, made while another may be in progress
    start2Out,      \* what it returned
    procs,          \* number of server processes spawned and not killed
    procOwned       \* number of them held in self.process (0 or 1)

reqVars == <<pending, slot, reqPc, reqArg, reqOut>>
workerVars == <<running, writeQ, writerPc, readerPc>>
handlerVars == <<hPc, hReq>>
notifVars == <<notifLog, disconnects>>
wireVars == <<peerInbox, inWire, peerOpen, peerSent>>
clientVars == <<isExternal, rpcInstalled, state, stopPc, stopKind, stopTodo, stopErrors>>
startVars == <<startPc, startOut, starts, startEntry, spawns, installs>>
regVars == <<sessions, sessReaders, sessWriterWaiting>>
taskVars == <<tasks>>
onVars == <<handlerReaders, deferred, unsubscribed, dispatchLog>>
subVars == <<receivers, sawPc, sawLast, sawOut>>
sessVars == <<handlers, nextHandlerId, toolHandlers, permHandler, destroyPc,
              destroyOut, subVars>>
evHist == <<delivered, afterDestroy, sawTerms, sawLagged>>
toolHist == <<toolLog>>
optVars == <<autoStart, autoRestart>>
hdrVars == <<hdrStream, hdrPc, hdrLen, hdrLog, hdrAlloc, hdrBodies, hdrBlock>>
raceVars == <<hostStop, start2Pc, start2Out>>
procVars == <<procs, procOwned>>
arcVars == <<onDisconnectSet, arcPc, rcPc, rcTodo>>
lifeVars == <<optVars, hdrVars, raceVars, procVars, arcVars, createCall, destroyAgain, notifyLog, sentNotes, lostSessions,
              lostNotified, stopEntry>>
histVars == <<completions, lateDelivered, evHist, toolHist>>
vars == <<reqVars, workerVars, handlerVars, notifVars, wireVars, clientVars, startVars, regVars,
          taskVars, onVars, sessVars, histVars, lifeVars>>

(***************************************************************************)
(* Frames.  A body is classified by the presence of "id" and "method"      *)
(* (read_loop).  late is history: the peer sent the frame after            *)
(* CopilotClient::stop had returned.                                       *)
(***************************************************************************)
\* params / result / error of a frame: sid is "sessionId" (0 when absent), typ a
\* discriminator (event type, tool name, resultType), val the remaining payload
Body(sid, typ, val) == [sid |-> sid, typ |-> typ, val |-> val]

\* jsonrpc: the body has the "jsonrpc" member that JsonRpcRequest, JsonRpcResponse and
\* JsonRpcNotification require (jsonrpc.rs 66-80, 105-121)
Frame(id, method, ok, body, late) ==
    [id |-> id, method |-> method, ok |-> ok, body |-> body, late |-> late,
     jsonrpc |-> TRUE]

\* the same body without its "jsonrpc" member
Unversioned(f) == [f EXCEPT !.jsonrpc = FALSE]

\* serde_json::from_value::<JsonRpcRequest | JsonRpcResponse | JsonRpcNotification>
Deserializes(f) == f.jsonrpc

\* JsonRpcRequest built by request(): id is Value::String(request_id)
RequestFrame(c, method, body) == Frame(StrId(c), method, TRUE, body, FALSE)

NoFrame == Frame(NoId, NoMethod, TRUE, Body(0, "", 0), FALSE)

\* WriteMessage
SendMsg(f) == [stop |-> FALSE, frame |-> f]
StopMsg == [stop |-> TRUE, frame |-> NoFrame]

Remove(f, k) == [i \in (DOMAIN f) \ {k} |-> f[i]]
Insert(f, k, x) == [i \in (DOMAIN f) \cup {k} |-> IF i = k THEN x ELSE f[i]]
EmptyMap == [i \in {} |-> 0]

(***************************************************************************)
(* JsonRpcClient::request (jsonrpc.rs 623-667), one call per caller.       *)
(***************************************************************************)
EmptySlot == [full |-> FALSE, resp |-> NoFrame]
NoResult == [kind |-> "none", body |-> Body(0, "", 0), rid |-> NoId]
Result(kind, body, rid) == [kind |-> kind, body |-> body, rid |-> rid]
NoBody == Body(0, "", 0)
Arg(method, body) == [method |-> method, body |-> body]

\* the caller holds an Arc<JsonRpcClient> and enters request(method, params)
BeginRequest(c, method, body) ==
    /\ reqPc[c] = "idle"
    /\ reqPc' = [reqPc EXCEPT ![c] = "insert"]
    /\ reqArg' = [reqArg EXCEPT ![c] = Arg(method, body)]

\* let (tx, rx) = oneshot::channel(); pending.insert(request_id, tx)
ReqInsert(c) ==
    /\ reqPc[c] = "insert"
    /\ pending' = Insert(pending, c, c)
    /\ slot' = [slot EXCEPT ![c] = EmptySlot]
    /\ reqPc' = [reqPc EXCEPT ![c] = "enqueue"]
    /\ UNCHANGED <<reqArg, reqOut, workerVars, handlerVars, notifVars, wireVars,
                   clientVars, startVars, lifeVars, regVars, taskVars, onVars, sessVars, histVars>>

\* the mpsc receiver is owned by write_loop and dropped when it returns
WriteChannelClosed == writerPc = "exited"

\* self.write_tx.send(WriteMessage::Send(data)).await.map_err(|_| ClientStopped)?
ReqEnqueue(c) ==
    /\ reqPc[c] = "enqueue"
    /\ IF WriteChannelClosed
       THEN /\ reqOut' = [reqOut EXCEPT ![c] = Result("client_stopped", NoBody, NoId)]
            /\ reqPc' = [reqPc EXCEPT ![c] = "done"]
            /\ UNCHANGED writeQ
       ELSE /\ Len(writeQ) < WriteQueueCapacity
            /\ writeQ' = Append(writeQ,
                                SendMsg(RequestFrame(c, reqArg[c].method, reqArg[c].body)))
            /\ reqPc' = [reqPc EXCEPT ![c] = "await"]
            /\ UNCHANGED reqOut
    /\ UNCHANGED <<pending, slot, reqArg, running, writerPc, readerPc, handlerVars,
                   notifVars, wireVars, clientVars, startVars, lifeVars, regVars, taskVars, onVars, sessVars, histVars>>

\* let response = rx.await  (the sender is never dropped while the call borrows the engine)
ReqWake(c) ==
    /\ reqPc[c] = "await"
    /\ slot[c].full
    /\ reqPc' = [reqPc EXCEPT ![c] = "cleanup"]
    /\ UNCHANGED <<pending, slot, reqArg, reqOut, workerVars, handlerVars, notifVars,
                   wireVars, clientVars, startVars, lifeVars, regVars, taskVars, onVars, sessVars, histVars>>

\* pending.remove(&request_id); then Err(JsonRpc{..}) or Ok(result)
ReqCleanup(c) ==
    /\ reqPc[c] = "cleanup"
    /\ pending' = Remove(pending, c)
    /\ reqOut' = [reqOut EXCEPT ![c] =
                    IF slot[c].resp.ok
                    THEN Result("ok", slot[c].resp.body, slot[c].resp.id)
                    ELSE Result("rpc_error", slot[c].resp.body, slot[c].resp.id)]
    /\ reqPc' = [reqPc EXCEPT ![c] = "done"]
    /\ UNCHANGED <<slot, reqArg, workerVars, handlerVars, notifVars, wireVars,
                   clientVars, startVars, lifeVars, regVars, taskVars, onVars, sessVars, histVars>>

\* Session::request (session.rs 450-473): the session's calls go to request() of the
\* engine of the client that owns the session
SessionRequest(c, method, body) == BeginRequest(c, method, body)

(***************************************************************************)
(* JsonRpcClient::notify (jsonrpc.rs 683-697): one call is one step, the    *)
(* send into the write queue being its only await.                         *)
(***************************************************************************)
\* JsonRpcNotification { jsonrpc, method, params }: a body without "id"
NotificationFrame(method, body) == Frame(NoId, method, TRUE, body, FALSE)

NotifyEntry(method, body, out) == [method |-> method, body |-> body, out |-> out]

\* the host calls notify(method, params); the params are numbered by call
HostNotify(method) ==
    /\ Len(notifyLog) < MaxNotifies
    /\ LET body == Body(0, "", Len(notifyLog) + 1) IN
       IF WriteChannelClosed
       THEN /\ notifyLog' = Append(notifyLog, NotifyEntry(method, body, "client_stopped"))
            /\ UNCHANGED writeQ
       ELSE /\ Len(writeQ) < WriteQueueCapacity
            /\ writeQ' = Append(writeQ, SendMsg(NotificationFrame(method, body)))
            /\ notifyLog' = Append(notifyLog, NotifyEntry(method, body, "ok"))
    /\ UNCHANGED <<reqVars, running, writerPc, readerPc, handlerVars, notifVars, wireVars,
                   clientVars, startVars, regVars, taskVars, onVars, sessVars, histVars,
                   optVars, hdrVars, raceVars, procVars, arcVars, createCall, destroyAgain, sentNotes, lostSessions,
                   lostNotified, stopEntry>>

(***************************************************************************)
(* CopilotClient::ping (client.rs 466-491): get_rpc_client, then           *)
(* request("ping", {message}).  Caller c pings with message c.             *)
(***************************************************************************)
ClientPing(c) ==
    /\ c \in HostCallers
    /\ reqPc[c] = "idle"
    /\ IF rpcInstalled
       THEN /\ BeginRequest(c, "ping", Body(0, "", c))
            /\ UNCHANGED reqOut
       ELSE /\ reqOut' = [reqOut EXCEPT ![c] = Result("not_connected", NoBody, NoId)]
            /\ reqPc' = [reqPc EXCEPT ![c] = "done"]
            /\ UNCHANGED reqArg
    /\ UNCHANGED <<pending, slot, workerVars, handlerVars, notifVars, wireVars,
                   clientVars, startVars, lifeVars, regVars, taskVars, onVars, sessVars, histVars>>

(***************************************************************************)
(* write_loop (jsonrpc.rs 318-343).                                        *)
(***************************************************************************)
\* while running.load(SeqCst)
WriterCheck ==
    /\ writerPc = "top"
    /\ IF running
       THEN writerPc' = "recv" /\ UNCHANGED writeQ
       ELSE writerPc' = "exited" /\ writeQ' = <<>>
    /\ UNCHANGED <<reqVars, running, readerPc, handlerVars, notifVars, wireVars,
                   clientVars, startVars, lifeVars, regVars, taskVars, onVars, sessVars, histVars>>

\* write_all / flush fail once the peer's end is gone
TransportWritable == peerOpen

\* match write_rx.recv().await
WriterRecv ==
    /\ writerPc = "recv"
    /\ writeQ # <<>>
    /\ LET m == Head(writeQ) IN
       IF m.stop \/ ~TransportWritable
       THEN /\ writerPc' = "exited"
            /\ writeQ' = <<>>
            /\ UNCHANGED peerInbox
       ELSE /\ writerPc' = "top"
            /\ writeQ' = Tail(writeQ)
            /\ peerInbox' = peerInbox \cup {m.frame}
    /\ UNCHANGED <<reqVars, running, readerPc, handlerVars, notifVars, inWire, peerOpen,
                   peerSent, clientVars, startVars, lifeVars, regVars, taskVars, onVars, sessVars, histVars>>

(***************************************************************************)
(* read_loop (jsonrpc.rs 346-408).  disconnects counts the invocations of   *)
(* the engine's on_disconnect callback.                                    *)
(***************************************************************************)
HasId(f) == f.id.t # "none"
HasMethod(f) == f.method # NoMethod

\* a read_loop that leaves without looking at on_disconnect
CallbackNeverInvoked(installed) == 0

\* if let Some(callback) = on_disconnect.read().await.as_ref() { callback() }: the
\* number of invocations
CallbackInvoked(installed) == IF installed THEN 1 ELSE 0

\* the loop is left
ReaderExits ==
    /\ readerPc' = "exited"
    /\ disconnects' = disconnects + CallbackInvoked(onDisconnectSet)
    /\ lostSessions' = IF onDisconnectSet THEN sessions ELSE lostSessions

readerRest == <<optVars, hdrVars, raceVars, procVars, arcVars, createCall, destroyAgain, notifyLog, sentNotes,
                lostNotified, stopEntry>>

\* while running.load(SeqCst)
ReaderCheck ==
    /\ readerPc = "top"
    /\ IF running
       THEN readerPc' = "read" /\ UNCHANGED <<disconnects, lostSessions>>
       ELSE ReaderExits
    /\ UNCHANGED <<reqVars, running, writeQ, writerPc, handlerVars, notifLog, wireVars,
                   clientVars, startVars, readerRest, regVars, taskVars, onVars, sessVars,
                   histVars>>

\* read_content_length returns Err on EOF: break
ReaderEof ==
    /\ readerPc = "read"
    /\ inWire = <<>>
    /\ ~peerOpen
    /\ ReaderExits
    /\ UNCHANGED <<reqVars, running, writeQ, writerPc, handlerVars, notifLog, wireVars,
                   clientVars, startVars, readerRest, regVars, taskVars, onVars, sessVars,
                   histVars>>

Late(f, kind) == IF f.late THEN lateDelivered \cup {kind} ELSE lateDelivered

\* a handle_response that takes whichever sender is pending, whatever the id
ResponseTargetAnyPending(f) ==
    IF DOMAIN pending # {} THEN {pending[CHOOSE k \in DOMAIN pending : TRUE]} ELSE {}

\* handle_response (jsonrpc.rs 453-475): the caller whose sender is removed and completed
ResponseTarget(f) ==
    IF Deserializes(f) /\ f.id.t = "string" /\ f.id.v \in DOMAIN pending
    THEN {pending[f.id.v]} ELSE {}

\* has_id && !has_method
ReaderResponse ==
    /\ readerPc = "read"
    /\ inWire # <<>>
    /\ LET f == Head(inWire) IN
       /\ HasId(f) /\ ~HasMethod(f)
       /\ IF ResponseTarget(f) # {}
          THEN LET c == CHOOSE x \in ResponseTarget(f) : TRUE IN
               /\ pending' = Remove(pending, f.id.v)
               /\ slot' = [slot EXCEPT ![c] = [full |-> TRUE, resp |-> f]]
               /\ completions' = [completions EXCEPT ![c] = @ + 1]
               /\ lateDelivered' = Late(f, "response")
          ELSE UNCHANGED <<pending, slot, completions, lateDelivered>>
    /\ inWire' = Tail(inWire)
    /\ readerPc' = "top"
    /\ UNCHANGED <<reqPc, reqArg, reqOut, running, writeQ, writerPc, handlerVars,
                   notifVars, peerInbox, peerOpen, peerSent, clientVars, startVars, lifeVars, regVars,
                   taskVars, onVars, sessVars, evHist, toolHist>>

(***************************************************************************)
(* The notification handler installed by setup_notification_handler        *)
(* (client.rs 893-913): a session.event with a sessionId and a parsable    *)
(* event spawns one dispatch task.                                         *)
(***************************************************************************)
EventTypes == {"assistant.message", "session.idle", "session.error", "other"}
\* session: the session the task's lookup found (0 before the lookup); after is
\* history: the handler ids already unsubscribed when dispatch_event was entered
NewTask(b) ==
    [sid |-> b.sid, typ |-> b.typ, val |-> b.val, pc |-> "spawned", session |-> 0,
     after |-> {}]

NotificationHandler(method, b) ==
    IF method = "session.event" /\ b.sid # 0 /\ b.typ \in EventTypes
    THEN tasks' = Append(tasks, NewTask(b))
    ELSE UNCHANGED tasks

\* a handler call that passes the method and drops the params
ObservedMethodOnly(f) == <<f.method, NoBody>>

\* handler(notification.method, params): what the notification handler is called with
Observed(f) == <<f.method, f.body>>

\* !has_id && has_method: handle_notification (jsonrpc.rs 478-492)
ReaderNotification ==
    /\ readerPc = "read"
    /\ inWire # <<>>
    /\ LET f == Head(inWire) IN
       /\ ~HasId(f) /\ HasMethod(f)
       /\ IF Deserializes(f)
          THEN /\ notifLog' = Append(notifLog, Observed(f))
               /\ NotificationHandler(f.method, f.body)
               /\ lateDelivered' = Late(f, "notification")
          ELSE UNCHANGED <<notifLog, tasks, lateDelivered>>
    /\ inWire' = Tail(inWire)
    /\ readerPc' = "top"
    /\ UNCHANGED <<reqVars, running, writeQ, writerPc, handlerVars, disconnects,
                   peerInbox, peerOpen, peerSent, clientVars, startVars, lifeVars, regVars, sessVars,
                   completions, evHist, toolHist, onVars>>

\* neither id nor method: no branch of the classification is taken
ReaderDiscard ==
    /\ readerPc = "read"
    /\ inWire # <<>>
    /\ ~HasId(Head(inWire)) /\ ~HasMethod(Head(inWire))
    /\ inWire' = Tail(inWire)
    /\ readerPc' = "top"
    /\ UNCHANGED <<reqVars, running, writeQ, writerPc, handlerVars, notifVars,
                   peerInbox, peerOpen, peerSent, clientVars, startVars, lifeVars, regVars, taskVars, onVars,
                   sessVars, histVars>>

(***************************************************************************)
(* handle_server_request (jsonrpc.rs 495-552), awaited by read_loop.       *)
(***************************************************************************)
\* the methods with a handler in request_handlers (client.rs 918-969)
RequestHandlers == {"tool.call"}

\* let _ = write_tx.send(WriteMessage::Send(data)).await
Enqueued(q, f) == IF WriteChannelClosed THEN q ELSE Append(q, SendMsg(f))

ResponseFrame(req, ok, body) == Frame(req.id, NoMethod, ok, body, FALSE)

\* has_id && has_method
ReaderServerRequest ==
    /\ readerPc = "read"
    /\ inWire # <<>>
    /\ LET f == Head(inWire) IN
       /\ HasId(f) /\ HasMethod(f)
       /\ CASE ~Deserializes(f) ->
                 \* Err(_) => return
                 /\ readerPc' = "top"
                 /\ UNCHANGED <<writeQ, hPc, hReq, lateDelivered>>
            [] Deserializes(f) /\ f.method \in RequestHandlers ->
                 /\ readerPc' = "handler"
                 /\ hPc' = "start"
                 /\ hReq' = f
                 /\ lateDelivered' = Late(f, "request")
                 /\ UNCHANGED writeQ
            [] OTHER ->
                 /\ Len(writeQ) < WriteQueueCapacity
                 /\ writeQ' = Enqueued(writeQ,
                       ResponseFrame(f, FALSE, Body(0, "error", METHOD_NOT_FOUND)))
                 /\ readerPc' = "top"
                 /\ UNCHANGED <<hPc, hReq, lateDelivered>>
    /\ inWire' = Tail(inWire)
    /\ UNCHANGED <<reqVars, running, writerPc, notifVars, peerInbox, peerOpen, peerSent,
                   clientVars, startVars, lifeVars, regVars, taskVars, onVars, sessVars, completions, evHist, toolHist>>

\* the handler future has completed: one response frame, then back to the loop
HandlerResponds(ok, body) ==
    /\ Len(writeQ) < WriteQueueCapacity
    /\ writeQ' = Enqueued(writeQ, ResponseFrame(hReq, ok, body))
    /\ hPc' = "idle"
    /\ hReq' = NoFrame
    /\ readerPc' = "top"

(***************************************************************************)
(* The tool.call handler (client.rs 920-966) and Session::execute_tool     *)
(* (session.rs 357-384).  The registry's read guard is taken before the    *)
(* lookup and lives until the handler future completes.                    *)
(***************************************************************************)
RegistryReadable == ~sessWriterWaiting

ToolPayloadValid(b) == b.sid # 0 /\ b.typ # ""

\* a lookup that falls back to any registered session
ToolSessionAnyRegistered(b) ==
    IF b.sid \in sessions THEN {b.sid} ELSE sessions

\* sessions.get(&session_id): the session whose execute_tool is called
ToolSession(b) ==
    IF b.sid \in sessions THEN {b.sid} ELSE {}

\* guard.get(tool_name) in execute_tool: the sessions whose tool handler is invoked
ToolHandlerOwner(b) == {s \in ToolSession(b) : b.typ \in toolHandlers[s]}

\* ToolResult::unsupported(&tool_name), and the same literal in execute_tool
Unsupported(b) == Body(b.sid, "failure", 0)

\* what the handler's future returns when no tool handler is awaited
ToolCallImmediate(b) ==
    IF ~ToolPayloadValid(b) THEN [ok |-> FALSE, body |-> Body(0, "error", INTERNAL_ERROR)]
    ELSE [ok |-> TRUE, body |-> Unsupported(b)]

ToolLogEntry(req, s, out) == [req |-> req, session |-> s, out |-> out]

ToolCallStart ==
    /\ hPc = "start"
    /\ LET b == hReq.body IN
       IF ToolPayloadValid(b) /\ ToolHandlerOwner(b) # {}
       THEN /\ RegistryReadable
            /\ sessReaders' = sessReaders + 1
            /\ hPc' = "tool"
            /\ toolLog' = Append(toolLog,
                     ToolLogEntry(hReq, CHOOSE s \in ToolHandlerOwner(b) : TRUE, "running"))
            /\ UNCHANGED <<writeQ, hReq, readerPc>>
       ELSE /\ ~ToolPayloadValid(b) \/ RegistryReadable
            /\ HandlerResponds(ToolCallImmediate(b).ok, ToolCallImmediate(b).body)
            /\ toolLog' = IF ToolPayloadValid(b)
                          THEN Append(toolLog, ToolLogEntry(hReq, 0, "unsupported"))
                          ELSE toolLog
            /\ UNCHANGED sessReaders
    /\ UNCHANGED <<reqVars, running, writerPc, notifVars, wireVars, clientVars, startVars, lifeVars, sessions,
                   sessWriterWaiting, taskVars, onVars, sessVars, completions, lateDelivered,
                   evHist>>

\* the host's tool handler issues an outbound request through the session and awaits it
ToolNestedCall ==
    /\ hPc = "tool"
    /\ SessionRequest(HandlerCaller, "session.getMessages", Body(hReq.body.sid, "", 0))
    /\ hPc' = "tool_wait"
    /\ UNCHANGED <<pending, slot, reqOut, workerVars, hReq, notifVars, wireVars,
                   clientVars, startVars, lifeVars, regVars, taskVars, onVars, sessVars, histVars>>

\* the ToolResult a host handler gives for an invocation: computed from its arguments
HandlerResult(inv) == Body(inv.sid, "success", inv.val)

\* Ok(tool_result) => {"result": tool_result}; Err(e) => ToolResult::failure(e)
ToolResponse(inv, ok) == IF ok THEN HandlerResult(inv) ELSE Body(inv.sid, "failure", 0)

\* the host's tool handler returns Ok(result) or Err(e)
ToolReturn(ok) ==
    /\ \/ hPc = "tool"
       \/ hPc = "tool_wait" /\ reqPc[HandlerCaller] = "done"
    /\ sessReaders' = sessReaders - 1
    /\ HandlerResponds(TRUE, ToolResponse(hReq.body, ok))
    /\ toolLog' = [toolLog EXCEPT ![Len(toolLog)].out = IF ok THEN "ok" ELSE "err"]
    /\ UNCHANGED <<reqVars, running, writerPc, notifVars, wireVars, clientVars, startVars, lifeVars, sessions,
                   sessWriterWaiting, taskVars, onVars, sessVars, completions, lateDelivered,
                   evHist>>

\* the host's tool handler panics: nothing between it and the task that runs read_loop
\* (jsonrpc.rs 301-311) catches the unwind, so that task ends where it stands; the
\* registry's read guard is dropped by the unwind, no response is written and the
\* on_disconnect callback after the loop is not reached
ToolPanics ==
    /\ \/ hPc = "tool"
       \/ hPc = "tool_wait" /\ reqPc[HandlerCaller] = "done"
    /\ sessReaders' = sessReaders - 1
    /\ hPc' = "idle"
    /\ hReq' = NoFrame
    /\ readerPc' = "panicked"
    /\ toolLog' = [toolLog EXCEPT ![Len(toolLog)].out = "panic"]
    /\ UNCHANGED <<reqVars, running, writeQ, writerPc, notifVars, wireVars, clientVars, startVars, lifeVars,
                   sessions, sessWriterWaiting, taskVars, onVars, sessVars, completions,
                   lateDelivered, evHist>>

(***************************************************************************)
(* Session::handle_permission_request (session.rs 387-429).  No request    *)
(* handler of the engine calls it: RequestHandlers holds "tool.call" only. *)
(***************************************************************************)
\* PermissionRequestResult::denied() (types.rs 166-171)
Denied == Body(0, "denied-no-approval-rule-and-could-not-request-from-user", 0)

\* the result for session s when its handler, if set, returns Ok(result) or Err(_)
HandlePermissionRequest(s, handlerOk, result) ==
    IF ~permHandler[s] THEN Denied
    ELSE IF handlerOk THEN result ELSE Denied

(***************************************************************************)
(* The session's broadcast channel (session.rs 93): event_tx and the       *)
(* receivers made by event_tx.subscribe().  A receiver sees the events     *)
(* sent after it was made; one that falls BroadcastCapacity behind loses   *)
(* the oldest (recv reports Lagged and resumes at the oldest retained).    *)
(***************************************************************************)
\* broadcast::channel(100)
BroadcastCapacity == 100

ReceiverIds == {"host", "saw"}
NoReceiver == [live |-> FALSE, buf |-> <<>>]
Event(typ, val) == [typ |-> typ, val |-> val]

\* Session::subscribe (session.rs 272-274): self.event_tx.subscribe()
Subscribe(rxs, r) == [rxs EXCEPT ![r] = [live |-> TRUE, buf |-> <<>>]]

\* a return that leaves the receiver subscribed
KeepReceiver(rxs, r) == rxs

\* the receiver is dropped
DropReceiver(rxs, r) == [rxs EXCEPT ![r] = NoReceiver]

\* the receiver already holds as many events as the channel retains
Overflows(rx) == rx.live /\ Len(rx.buf) >= BroadcastCapacity

\* self.event_tx.send(event.clone()): every live receiver gets the event
BroadcastSend(rxs, e) ==
    [r \in ReceiverIds |->
        IF ~rxs[r].live THEN rxs[r]
        ELSE [live |-> TRUE,
              buf |-> IF Overflows(rxs[r])
                      THEN Append(Tail(rxs[r].buf), e)
                      ELSE Append(rxs[r].buf, e)]]

\* the host obtains a receiver from subscribe() and keeps it
HostSubscribe(s) ==
    /\ ~receivers[s]["host"].live
    /\ receivers' = [receivers EXCEPT ![s] = Subscribe(@, "host")]
    /\ UNCHANGED <<reqVars, workerVars, handlerVars, notifVars, wireVars, clientVars, startVars, lifeVars,
                   regVars, taskVars, onVars, handlers, nextHandlerId, toolHandlers,
                   permHandler, destroyPc, destroyOut, sawPc, sawLast, sawOut, histVars>>

(***************************************************************************)
(* The event-dispatch task spawned per session.event (client.rs 904-910)   *)
(* and Session::dispatch_event (session.rs 432-447).  The tasks of the     *)
(* list are all runnable: the runtime polls them in any order.             *)
(***************************************************************************)
IsTerminator(e) == e.typ \in {"session.idle", "session.error"}
SawInProgress == sawPc \in {"send", "wait"}
DropTask(i) == [j \in 1..(Len(tasks) - 1) |-> IF j < i THEN tasks[j] ELSE tasks[j + 1]]

\* permit, sessions.read().await, sessions.get(&session_id); dispatch_event begins:
\* let _ = self.event_tx.send(event.clone())
\* a lookup that falls back to any registered session
EventSessionAnyRegistered(sid) ==
    IF sid \in sessions THEN {sid} ELSE sessions

\* sessions.get(&session_id) (client.rs 905)
EventSession(sid) ==
    IF sid \in sessions THEN {sid} ELSE {}

TaskStart(i) ==
    /\ i \in 1..Len(tasks)
    /\ tasks[i].pc = "spawned"
    /\ RegistryReadable
    /\ LET t == tasks[i]
           e == Event(t.typ, t.val) IN
       IF EventSession(t.sid) # {}
       THEN LET s == CHOOSE x \in EventSession(t.sid) : TRUE IN
            /\ sessReaders' = sessReaders + 1
            /\ tasks' = [tasks EXCEPT ![i].pc = "sent", ![i].session = s,
                                      ![i].after = unsubscribed]
            /\ receivers' = [receivers EXCEPT ![s] = BroadcastSend(@, e)]
            /\ afterDestroy' = IF destroyOut[s] = "ok" /\ receivers[s]["host"].live
                               THEN afterDestroy \cup {"receiver"} ELSE afterDestroy
            /\ sawTerms' = IF SawInProgress /\ IsTerminator(e)
                           THEN Append(sawTerms, [val |-> t.val, during |-> sawPc])
                           ELSE sawTerms
            /\ sawLagged' = (sawLagged \/ Overflows(receivers[s]["saw"]))
       ELSE /\ tasks' = DropTask(i)
            /\ UNCHANGED <<sessReaders, receivers, afterDestroy, sawTerms, sawLagged>>
    /\ UNCHANGED <<reqVars, workerVars, handlerVars, notifVars, wireVars, clientVars, startVars, lifeVars,
                   sessions, sessWriterWaiting, handlers, nextHandlerId, toolHandlers,
                   permHandler, destroyPc, destroyOut, sawPc, sawLast,
                   sawOut, completions, lateDelivered, delivered, toolHist, onVars>>

\* let handlers = self.handlers.read().await; for entry in handlers.iter()
\* { (entry.handler)(event) }; the guards and the permit are dropped when the task ends.
\* The list is written only by on(), its unsubscribe closure and destroy(), none of
\* which holds the write guard across an await: the read guard is granted and the
\* loop, which has no await, runs to its end.
TaskCall(i) ==
    /\ i \in 1..Len(tasks)
    /\ tasks[i].pc = "sent"
    /\ LET t == tasks[i]
           s == t.session IN
       /\ delivered' = IF handlers[s] # <<>>
                       THEN [delivered EXCEPT ![s] = Append(@, t.val)]
                       ELSE delivered
       /\ afterDestroy' = IF destroyOut[s] = "ok" /\ handlers[s] # <<>>
                          THEN afterDestroy \cup {"callback"} ELSE afterDestroy
    /\ sessReaders' = sessReaders - 1
    /\ tasks' = DropTask(i)
    /\ UNCHANGED <<reqVars, workerVars, handlerVars, notifVars, wireVars, clientVars, startVars, lifeVars,
                   sessions, sessWriterWaiting, handlers, nextHandlerId, toolHandlers,
                   permHandler, destroyPc, destroyOut, subVars, completions,
                   lateDelivered, sawTerms, sawLagged, toolHist, onVars>>

(***************************************************************************)
(* Session::on and the unsubscribe closure it returns (session.rs          *)
(* 227-267), against dispatch_event holding the handlers read guard while  *)
(* it calls the handlers (session.rs 437-446).  try_write fails while any  *)
(* guard is held; the fallback task spawned then runs whenever the runtime *)
(* polls it and the lock is free.                                          *)
(***************************************************************************)
Ids(list) == {list[k] : k \in DOMAIN list}
Retain(list, id) == SelectSeq(list, LAMBDA h : h # id)
DeferredOp(s, op, id) == [session |-> s, op |-> op, id |-> id]

\* handlers.try_write() is Ok
TryWrite(s) == handlerReaders[s] = 0

\* on(handler): id = next_handler_id.fetch_add(1); push now or from a spawned task
HostOn(s) ==
    /\ nextHandlerId[s] < MaxHandlers
    /\ LET id == nextHandlerId[s] IN
       /\ nextHandlerId' = [nextHandlerId EXCEPT ![s] = id + 1]
       /\ IF TryWrite(s)
          THEN handlers' = [handlers EXCEPT ![s] = Append(@, id)] /\ UNCHANGED deferred
          ELSE deferred' = deferred \cup {DeferredOp(s, "push", id)} /\ UNCHANGED handlers
    /\ UNCHANGED <<reqVars, workerVars, handlerVars, notifVars, wireVars, clientVars, startVars, lifeVars,
                   regVars, taskVars, handlerReaders, unsubscribed, dispatchLog,
                   toolHandlers, permHandler, destroyPc, destroyOut, subVars, histVars>>

\* the FnOnce returned by on(): retain(|h| h.id != id) now or from a spawned task
HostUnsubscribe(s, id) ==
    /\ id < nextHandlerId[s]
    /\ id \notin unsubscribed
    /\ unsubscribed' = unsubscribed \cup {id}
    /\ IF TryWrite(s)
       THEN handlers' = [handlers EXCEPT ![s] = Retain(@, id)] /\ UNCHANGED deferred
       ELSE deferred' = deferred \cup {DeferredOp(s, "retain", id)} /\ UNCHANGED handlers
    /\ UNCHANGED <<reqVars, workerVars, handlerVars, notifVars, wireVars, clientVars, startVars, lifeVars,
                   regVars, taskVars, handlerReaders, dispatchLog, nextHandlerId,
                   toolHandlers, permHandler, destroyPc, destroyOut, subVars, histVars>>

\* a spawned fallback task: let mut guard = handlers.write().await; push or retain
DeferredRun(d) ==
    /\ d \in deferred
    /\ handlerReaders[d.session] = 0
    /\ handlers' = [handlers EXCEPT ![d.session] =
                       IF d.op = "push" THEN Append(@, d.id) ELSE Retain(@, d.id)]
    /\ deferred' = deferred \ {d}
    /\ UNCHANGED <<reqVars, workerVars, handlerVars, notifVars, wireVars, clientVars, startVars, lifeVars,
                   regVars, taskVars, handlerReaders, unsubscribed, dispatchLog,
                   nextHandlerId, toolHandlers, permHandler, destroyPc, destroyOut,
                   subVars, histVars>>

\* dispatch_event: let handlers = self.handlers.read().await
DispatchLock(i) ==
    /\ i \in 1..Len(tasks)
    /\ tasks[i].pc = "sent"
    /\ tasks' = [tasks EXCEPT ![i].pc = "calling"]
    /\ handlerReaders' = [handlerReaders EXCEPT ![tasks[i].session] = @ + 1]
    /\ UNCHANGED <<reqVars, workerVars, handlerVars, notifVars, wireVars, clientVars, startVars, lifeVars,
                   regVars, deferred, unsubscribed, dispatchLog, sessVars, histVars>>

\* a loop that ends at the first handler that panics
CalledUntilFault(list, bad) ==
    LET stops == {k \in DOMAIN list : list[k] \in bad} IN
    IF stops = {} THEN list
    ELSE SubSeq(list, 1, CHOOSE k \in stops : \A j \in stops : k <= j)

\* for entry in handlers.iter() { catch_unwind(|| (entry.handler)(event)).ok(); }:
\* the handlers called when those of bad panic
CalledHandlers(list, bad) == list

DispatchEntry(t, list, bad) ==
    [val |-> t.val, list |-> list, bad |-> bad, called |-> CalledHandlers(list, bad),
     after |-> t.after]

\* the loop over the handlers, under the read guard taken by DispatchLock; the handlers
\* of bad panic.  The guards and the permit are dropped when the task ends.
DispatchCalls(i, bad) ==
    /\ i \in 1..Len(tasks)
    /\ tasks[i].pc = "calling"
    /\ LET t == tasks[i]
           s == t.session IN
       /\ bad \subseteq Ids(handlers[s])
       /\ dispatchLog' = Append(dispatchLog, DispatchEntry(t, handlers[s], bad))
       /\ delivered' = IF handlers[s] # <<>>
                       THEN [delivered EXCEPT ![s] = Append(@, t.val)]
                       ELSE delivered
       /\ afterDestroy' = IF destroyOut[s] = "ok" /\ handlers[s] # <<>>
                          THEN afterDestroy \cup {"callback"} ELSE afterDestroy
       /\ handlerReaders' = [handlerReaders EXCEPT ![s] = @ - 1]
    /\ sessReaders' = sessReaders - 1
    /\ tasks' = DropTask(i)
    /\ UNCHANGED <<reqVars, workerVars, handlerVars, notifVars, wireVars, clientVars, startVars, lifeVars,
                   sessions, sessWriterWaiting, deferred, unsubscribed, sessVars,
                   completions, lateDelivered, sawTerms, sawLagged, toolHist>>

(***************************************************************************)
(* Session::send (session.rs 114-136) and Session::send_and_wait           *)
(* (session.rs 149-196), one call by the host.                             *)
(***************************************************************************)
NoSawResult == [kind |-> "none", last |-> 0, term |-> 0]
SawResult(kind, last, term) == [kind |-> kind, last |-> last, term |-> term]

\* a send_and_wait that subscribes only once send() has returned
SawInstallsReceiverAfterSend(at) == at = "sent"

\* the point of send_and_wait at which let mut rx = self.subscribe() stands:
\* before self.send(options) is called
SawInstallsReceiver(at) == at = "begin"

\* rx = self.subscribe(); last_assistant_message = None; self.send(options) is entered:
\* self.request("session.send", {sessionId, prompt})
SawBegin(s) ==
    /\ sawPc = "idle"
    /\ receivers' = IF SawInstallsReceiver("begin")
                    THEN [receivers EXCEPT ![s] = Subscribe(@, "saw")] ELSE receivers
    /\ sawLast' = 0
    /\ SessionRequest(SendCaller, "session.send", Body(s, "", 0))
    /\ sawPc' = "send"
    /\ UNCHANGED <<pending, slot, reqOut, workerVars, handlerVars, notifVars, wireVars,
                   clientVars, startVars, lifeVars, regVars, taskVars, onVars, handlers, nextHandlerId, toolHandlers,
                   permHandler, destroyPc, destroyOut, sawOut, histVars>>

\* self.send(options).await?  -- an error leaves send_and_wait; Ok starts the timeout
SawSendReturned(s) ==
    /\ sawPc = "send"
    /\ reqPc[SendCaller] = "done"
    /\ IF reqOut[SendCaller].kind = "ok"
       THEN /\ sawPc' = "wait"
            /\ receivers' = IF SawInstallsReceiver("sent")
                            THEN [receivers EXCEPT ![s] = Subscribe(@, "saw")] ELSE receivers
            /\ UNCHANGED sawOut
       ELSE /\ sawPc' = "returned"
            /\ sawOut' = SawResult("send_error", 0, 0)
            /\ receivers' = [receivers EXCEPT ![s] = DropReceiver(@, "saw")]
    /\ UNCHANGED <<reqVars, workerVars, handlerVars, notifVars, wireVars, clientVars, startVars, lifeVars,
                   regVars, taskVars, onVars, handlers, nextHandlerId, toolHandlers,
                   permHandler, destroyPc, destroyOut, sawLast, histVars>>

\* match rx.recv().await { Ok(event) => match event.type ... }
SawRecv(s) ==
    /\ sawPc = "wait"
    /\ receivers[s]["saw"].live
    /\ receivers[s]["saw"].buf # <<>>
    /\ LET e == Head(receivers[s]["saw"].buf) IN
       IF IsTerminator(e)
       THEN /\ sawOut' = IF e.typ = "session.idle"
                         THEN SawResult("idle", sawLast, e.val)
                         ELSE SawResult("session_error", e.val, e.val)
            /\ sawPc' = "returned"
            /\ receivers' = [receivers EXCEPT ![s] = DropReceiver(@, "saw")]
            /\ UNCHANGED sawLast
       ELSE /\ sawLast' = IF e.typ = "assistant.message" THEN e.val ELSE sawLast
            /\ receivers' = [receivers EXCEPT ![s]["saw"].buf = Tail(@)]
            /\ UNCHANGED <<sawPc, sawOut>>
    /\ UNCHANGED <<reqVars, workerVars, handlerVars, notifVars, wireVars, clientVars, startVars, lifeVars,
                   regVars, taskVars, onVars, handlers, nextHandlerId, toolHandlers,
                   permHandler, destroyPc, destroyOut, histVars>>

\* tokio::time::timeout(timeout, ..) elapses: Err(CopilotError::Timeout(timeout))
SawTimeout(s) ==
    /\ sawPc = "wait"
    /\ sawOut' = SawResult("timeout", 0, 0)
    /\ sawPc' = "returned"
    /\ receivers' = [receivers EXCEPT ![s] = DropReceiver(@, "saw")]
    /\ UNCHANGED <<reqVars, workerVars, handlerVars, notifVars, wireVars, clientVars, startVars, lifeVars,
                   regVars, taskVars, onVars, handlers, nextHandlerId, toolHandlers,
                   permHandler, destroyPc, destroyOut, sawLast, histVars>>

(***************************************************************************)
(* Session::destroy (session.rs 299-320).                                  *)
(***************************************************************************)
\* self.request("session.destroy", {sessionId}) is issued
DestroyBegin(s) ==
    /\ destroyPc[s] = "idle"
    /\ SessionRequest(DestroyCaller, "session.destroy", Body(s, "", 0))
    /\ destroyPc' = [destroyPc EXCEPT ![s] = "request"]

\* the request() call of the destroy() that is in progress on s
DestroyCallerOf(s) == IF destroyAgain[s] THEN DestroyAgainCaller ELSE DestroyCaller

\* .await?  -- an error is returned before anything is cleared
DestroyAwait(s) ==
    /\ destroyPc[s] = "request"
    /\ reqPc[DestroyCallerOf(s)] = "done"
    /\ IF reqOut[DestroyCallerOf(s)].kind = "ok"
       THEN /\ destroyPc' = [destroyPc EXCEPT ![s] = "clear"]
            /\ UNCHANGED destroyOut
       ELSE /\ destroyPc' = [destroyPc EXCEPT ![s] = "done"]
            /\ destroyOut' = [destroyOut EXCEPT ![s] = "err"]
    /\ UNCHANGED <<reqVars, workerVars, handlerVars, notifVars, wireVars, clientVars, startVars, lifeVars,
                   regVars, taskVars, onVars, handlers, nextHandlerId, toolHandlers,
                   permHandler, subVars, histVars>>

\* handlers.write().await.clear(); tool_handlers ... clear(); permission_handler = None
DestroyClear(s) ==
    /\ destroyPc[s] = "clear"
    /\ handlers' = [handlers EXCEPT ![s] = <<>>]
    /\ toolHandlers' = [toolHandlers EXCEPT ![s] = {}]
    /\ permHandler' = [permHandler EXCEPT ![s] = FALSE]
    /\ destroyPc' = [destroyPc EXCEPT ![s] = "done"]
    /\ destroyOut' = [destroyOut EXCEPT ![s] = "ok"]
    /\ UNCHANGED <<reqVars, workerVars, handlerVars, notifVars, wireVars, clientVars, startVars, lifeVars,
                   regVars, taskVars, onVars, nextHandlerId, subVars, histVars>>

\* the host calls session.destroy()
HostDestroy(s) ==
    /\ DestroyBegin(s)
    /\ UNCHANGED <<pending, slot, reqOut, workerVars, handlerVars, notifVars, wireVars,
                   clientVars, startVars, lifeVars, regVars, taskVars, onVars, handlers, nextHandlerId, toolHandlers,
                   permHandler, destroyOut, subVars, histVars>>

\* the host calls session.destroy() again after a call that returned Ok: the same
\* code, from its first line
HostDestroyAgain(s) ==
    /\ destroyPc[s] = "done"
    /\ destroyOut[s] = "ok"
    /\ ~destroyAgain[s]
    /\ SessionRequest(DestroyAgainCaller, "session.destroy", Body(s, "", 0))
    /\ destroyPc' = [destroyPc EXCEPT ![s] = "request"]
    /\ destroyAgain' = [destroyAgain EXCEPT ![s] = TRUE]
    /\ UNCHANGED <<pending, slot, reqOut, workerVars, handlerVars, notifVars, wireVars,
                   clientVars, startVars, regVars, taskVars, onVars, handlers, nextHandlerId,
                   toolHandlers, permHandler, destroyOut, subVars, histVars, optVars, hdrVars, raceVars, procVars,
                   arcVars, createCall, notifyLog, sentNotes, lostSessions, lostNotified,
                   stopEntry>>

(***************************************************************************)
(* CopilotClient::start (client.rs 156-198) with start_cli_server in stdio  *)
(* mode (703-787), connect_to_server (842-887) and verify_protocol_version *)
(* (972-988).  The host calls start() on a new client, and again once a    *)
(* call has left the client Connected.                                     *)
(***************************************************************************)
StartEntry(st, sp, ins) == [state |-> st, spawns |-> sp, installs |-> ins]

\* protocolVersion of a ping result: the one get_sdk_protocol_version() gives, another
\* one, or none
ExpectedVersion == "sdk"
Versions == {ExpectedVersion, "other", ""}
Pong(version) == Body(0, version, 0)

StartReturns(out) ==
    /\ startPc' = "returned"
    /\ startOut' = out

\* *state = ConnectionState::Error; return Err(e)
StartFails(out) ==
    /\ state' = "Error"
    /\ StartReturns(out)

\* the calls the client itself makes on its engine: on a new engine they draw new ids
EngineCallers == {StartCaller, Start2Caller, CreateCaller, DestroyCaller, DestroyAgainCaller}

engineVars == <<running, writerPc, readerPc, writeQ, pending, reqPc, disconnects,
                onDisconnectSet, peerOpen, inWire, peerInbox, peerSent, rpcInstalled,
                installs>>

\* JsonRpcClient::new(reader, writer) (jsonrpc.rs 269-315): an empty pending table, an
\* empty write queue, no on_disconnect callback, the two workers started on the new
\* transport; *client = Some(rpc).  A call of the client that is still inside request()
\* holds the Arc of the engine it began on: nothing of it reaches the new transport and
\* no response of the new transport reaches it.
InstallEngine ==
    /\ running' = TRUE
    /\ writerPc' = "top"
    /\ readerPc' = "top"
    /\ writeQ' = <<>>
    /\ pending' = EmptyMap
    /\ reqPc' = [c \in Callers |->
                    IF c \in EngineCallers /\ reqPc[c] = "done" THEN "idle"
                    ELSE IF c \in EngineCallers /\ reqPc[c] \in {"insert", "enqueue"}
                    THEN "await"
                    ELSE reqPc[c]]
    /\ disconnects' = 0
    /\ onDisconnectSet' = FALSE
    /\ peerOpen' = TRUE
    /\ inWire' = <<>>
    /\ peerInbox' = {}
    /\ peerSent' = 0
    /\ rpcInstalled' = TRUE
    /\ installs' = installs + 1

\* start() is entered: if *state == Connected { return Ok(()) }; *state = Connecting
StartCall ==
    /\ starts < MaxStarts
    /\ starts' = starts + 1
    /\ startEntry' = StartEntry(state, spawns, installs)
    /\ IF state = "Connected"
       THEN StartReturns("ok") /\ UNCHANGED state
       ELSE /\ state' = "Connecting"
            /\ startPc' = IF isExternal THEN "connect" ELSE "spawn"
            /\ UNCHANGED startOut
    /\ UNCHANGED <<reqVars, workerVars, handlerVars, notifVars, wireVars, isExternal,
                   rpcInstalled, stopPc, stopKind, stopTodo, stopErrors, spawns,
                   installs, regVars, taskVars, onVars, sessVars, histVars>>

\* the host calls start()
StartBegin ==
    /\ startPc = "idle" \/ (startPc = "returned" /\ state = "Connected")
    /\ StartCall
    /\ UNCHANGED lifeVars

startRest == <<optVars, hdrVars, raceVars, arcPc, rcPc, rcTodo, createCall, destroyAgain, notifyLog,
               sentNotes, lostSessions, lostNotified, stopEntry>>

\* let mut child = cmd.spawn()?; ...; *process = Some(child): the handle that
\* self.process held is dropped, which leaves its process running
SpawnOwned ==
    /\ spawns' = spawns + 1
    /\ procs' = procs + 1
    /\ procOwned' = 1

\* start_cli_server: cmd.spawn() fails, or the child's pipes become the engine; in
\* stdio mode connect_to_server then has nothing to do
StartSpawn(ok) ==
    /\ startPc = "spawn"
    /\ IF ok
       THEN /\ InstallEngine
            /\ SpawnOwned
            /\ startPc' = "verify"
            /\ UNCHANGED <<state, startOut>>
       ELSE /\ StartFails("process_error")
            /\ UNCHANGED <<engineVars, spawns, procVars>>
    /\ UNCHANGED <<slot, reqArg, reqOut, handlerVars, notifLog,
                   isExternal, stopPc, stopKind, stopTodo, stopErrors, starts, startEntry,
                   regVars, taskVars, onVars, sessVars, histVars, startRest>>

\* connect_via_tcp to an external server: the connection fails, or the stream becomes
\* the engine
StartConnect(ok) ==
    /\ startPc = "connect"
    /\ IF ok
       THEN /\ InstallEngine
            /\ startPc' = "verify"
            /\ UNCHANGED <<state, startOut>>
       ELSE /\ StartFails("connection_error")
            /\ UNCHANGED engineVars
    /\ UNCHANGED <<slot, reqArg, reqOut, handlerVars, notifLog,
                   isExternal, stopPc, stopKind, stopTodo, stopErrors, starts, startEntry,
                   spawns, procVars, regVars, taskVars, onVars, sessVars, histVars,
                   startRest>>

\* verify_protocol_version: self.ping(None)
StartVerify ==
    /\ startPc = "verify"
    /\ BeginRequest(StartCaller, "ping", Body(0, "", 0))
    /\ startPc' = "ping"
    /\ UNCHANGED <<pending, slot, reqOut, workerVars, handlerVars, notifVars, wireVars,
                   clientVars, startOut, starts, startEntry, spawns, installs, regVars,
                   taskVars, onVars, sessVars, histVars, lifeVars>>

\* a start() that takes any reported version
VersionAcceptedIfReported(version) == version # ""

\* Some(version) with version == expected_version
VersionAccepted(version) == version = ExpectedVersion

\* the ping has returned: `?` on its error, else the match on protocol_version
StartVerified ==
    /\ startPc = "ping"
    /\ reqPc[StartCaller] = "done"
    /\ LET r == reqOut[StartCaller] IN
       IF r.kind # "ok" THEN StartFails("request_error")
       ELSE IF r.body.typ = "" THEN StartFails("not_reported")
       ELSE IF ~VersionAccepted(r.body.typ) THEN StartFails("mismatch")
       ELSE state' = "Connected" /\ StartReturns("ok")
    /\ UNCHANGED <<reqVars, workerVars, handlerVars, notifVars, wireVars, isExternal,
                   rpcInstalled, stopPc, stopKind, stopTodo, stopErrors, starts,
                   startEntry, spawns, installs, regVars, taskVars, onVars, sessVars,
                   histVars, lifeVars>>

(***************************************************************************)
(* CopilotClient::stop (client.rs 203-259) and force_stop (262-294).       *)
(***************************************************************************)
\* stop: errors = Vec::new(), the registry is snapshot under a read guard; force_stop
\* goes on to clear it
StopCall(kind) ==
    /\ stopPc = "idle"
    /\ stopKind' = kind
    /\ stopEntry' = [state |-> state, sessions |-> sessions]
    /\ stopErrors' = 0
    /\ IF kind = "stop"
       THEN /\ RegistryReadable
            /\ stopTodo' = sessions
            /\ stopPc' = IF sessions = {} THEN "clear" ELSE "destroy"
       ELSE /\ stopPc' = "clear"
            /\ UNCHANGED stopTodo
    /\ UNCHANGED <<reqVars, workerVars, handlerVars, notifVars, wireVars, isExternal, startVars,
                   rpcInstalled, state, regVars, taskVars, onVars, sessVars, histVars>>

\* the host calls stop() or force_stop()
StopBegin(kind) ==
    /\ StopCall(kind)
    /\ UNCHANGED <<optVars, hdrVars, raceVars, procVars, arcVars, createCall, destroyAgain, notifyLog, sentNotes,
                   lostSessions, lostNotified>>

\* for session in sessions { session.destroy().await ... }: the call
StopDestroyCall(s) ==
    /\ stopPc = "destroy"
    /\ s \in stopTodo
    /\ DestroyBegin(s)
    /\ stopPc' = "destroying"
    /\ UNCHANGED <<pending, slot, reqOut, workerVars, handlerVars, notifVars, wireVars,
                   isExternal, startVars, lifeVars, rpcInstalled, state, stopKind, stopTodo, stopErrors,
                   regVars, taskVars, onVars, handlers, nextHandlerId, toolHandlers,
                   permHandler, destroyOut, subVars, histVars>>

\* a loop that drops the errors of destroy()
CollectedNever(out) == 0

\* if let Err(e) = session.destroy().await { errors.push(..) }: the errors pushed
Collected(out) == IF out = "err" THEN 1 ELSE 0

\* ... its result
StopDestroyed(s) ==
    /\ stopPc = "destroying"
    /\ s \in stopTodo
    /\ destroyPc[s] = "done"
    /\ stopErrors' = stopErrors + Collected(destroyOut[s])
    /\ stopTodo' = stopTodo \ {s}
    /\ stopPc' = IF stopTodo' = {} THEN "clear" ELSE "destroy"
    /\ UNCHANGED <<reqVars, workerVars, handlerVars, notifVars, wireVars, isExternal, startVars, lifeVars,
                   rpcInstalled, state, stopKind, regVars, taskVars, onVars, sessVars, histVars>>

\* if !self.is_external_server { if let Some(child) = process.take() { child.kill() } }
Kills(external, owned) == ~external /\ owned > 0

\* a teardown that leaves the server process alone
AfterKillNoKill(kills, open) == open

\* whether the server's end of the transport is open after the teardown
AfterKill(kills, open) == IF kills THEN FALSE ELSE open

\* sessions.write().await.clear() once no read guard is held; then the kill
StopClear ==
    /\ stopPc = "clear"
    /\ sessReaders = 0
    /\ sessWriterWaiting' = FALSE
    /\ sessions' = {}
    /\ peerOpen' = AfterKill(Kills(isExternal, procOwned), peerOpen)
    /\ procs' = IF Kills(isExternal, procOwned) THEN procs - 1 ELSE procs
    /\ procOwned' = IF isExternal THEN procOwned ELSE 0
    /\ stopPc' = "rpc"
    /\ UNCHANGED <<reqVars, workerVars, handlerVars, notifVars, peerInbox, inWire,
                   peerSent, isExternal, startVars, rpcInstalled, state, stopKind, stopTodo,
                   stopErrors, sessReaders, taskVars, onVars, sessVars, histVars,
                   optVars, hdrVars, raceVars, arcVars, createCall, destroyAgain, notifyLog,
                   sentNotes, lostSessions, lostNotified, stopEntry>>

\* rpc_client.take(), JsonRpcClient::stop (jsonrpc.rs 703-707), state = Disconnected
StopRpc ==
    /\ stopPc = "rpc"
    /\ rpcInstalled' = FALSE
    /\ IF rpcInstalled
       THEN /\ running' = FALSE
            /\ Len(writeQ) < WriteQueueCapacity
            /\ writeQ' = IF WriteChannelClosed THEN writeQ ELSE Append(writeQ, StopMsg)
       ELSE UNCHANGED <<running, writeQ>>
    /\ state' = "Disconnected"
    /\ stopPc' = "returned"
    /\ UNCHANGED <<reqVars, writerPc, readerPc, handlerVars, notifVars, wireVars,
                   isExternal, startVars, lifeVars, stopKind, stopTodo, stopErrors, regVars, taskVars, onVars,
                   sessVars, histVars>>

(***************************************************************************)
(* CopilotClient::create_session (client.rs 297-388), resume_session       *)
(* (391-460) and ensure_connected (684-696).                               *)
(***************************************************************************)
createRest == <<optVars, hdrVars, raceVars, procVars, arcVars, destroyAgain, notifyLog, sentNotes, lostSessions,
                lostNotified, stopEntry>>

CreateMethod(kind) == IF kind = "create" THEN "session.create" ELSE "session.resume"

\* the call in progress, at position pc; out is what it returns
CreateAt(pc, out) == [createCall EXCEPT !.pc = pc, !.out = out]

\* an ensure_connected that takes any state for Connected
EnsureStartsNever(st, auto) == FALSE

\* ensure_connected goes on to start(): the state is not Connected and auto_start is set
EnsureStarts(st, auto) == st # "Connected" /\ auto

\* the host calls create_session(config) or resume_session(arg, config), which enter
\* ensure_connected: Ok when Connected, else start() or Err(NotConnected)
CreateBegin(kind, arg) ==
    /\ createCall.pc \in {"idle", "returned"}
    /\ startPc \in {"idle", "returned"}
    /\ LET call == [kind |-> kind, arg |-> arg, pc |-> "start", out |-> "none",
                    state |-> state, sessions |-> sessions] IN
       IF EnsureStarts(state, autoStart)
       THEN /\ StartCall
            /\ createCall' = call
       ELSE /\ createCall' = IF state = "Connected"
                             THEN [call EXCEPT !.pc = "rpc"]
                             ELSE [call EXCEPT !.pc = "returned", !.out = "not_connected"]
            /\ UNCHANGED <<reqVars, workerVars, handlerVars, notifVars, wireVars,
                           clientVars, startVars, regVars, taskVars, onVars, sessVars,
                           histVars>>
    /\ UNCHANGED createRest

\* self.start().await has returned: `?` on its error
CreateStarted ==
    /\ createCall.pc = "start"
    /\ startPc = "returned"
    /\ createCall' = IF startOut = "ok" THEN CreateAt("rpc", "none")
                     ELSE CreateAt("returned", "start_error")
    /\ UNCHANGED <<reqVars, workerVars, handlerVars, notifVars, wireVars, clientVars,
                   startVars, regVars, taskVars, onVars, sessVars, histVars, createRest>>

\* get_rpc_client()?, then rpc.request("session.create" / "session.resume", params)
CreateRequest ==
    /\ createCall.pc = "rpc"
    /\ IF rpcInstalled
       THEN /\ BeginRequest(CreateCaller, CreateMethod(createCall.kind),
                            Body(createCall.arg, "", 0))
            /\ createCall' = CreateAt("await", "none")
       ELSE /\ createCall' = CreateAt("returned", "not_connected")
            /\ UNCHANGED <<reqPc, reqArg>>
    /\ UNCHANGED <<pending, slot, reqOut, workerVars, handlerVars, notifVars, wireVars,
                   clientVars, startVars, regVars, taskVars, onVars, sessVars, histVars,
                   createRest>>

\* .await?; result.get("sessionId") or InvalidResponse; CopilotSession::new,
\* register_tools(config.tools), sessions.write().await.insert(session_id, session).
\* The request() call is over: the next create_session makes a new one.
CreateAwait(tools) ==
    /\ createCall.pc = "await"
    /\ reqPc[CreateCaller] = "done"
    /\ LET r == reqOut[CreateCaller]
           s == r.body.sid IN
       IF r.kind # "ok" \/ s = 0
       THEN /\ createCall' = CreateAt("returned", IF r.kind # "ok" THEN "request_error"
                                                  ELSE "invalid_response")
            /\ UNCHANGED <<sessions, handlers, nextHandlerId, toolHandlers, permHandler,
                           destroyPc, destroyOut, receivers, destroyAgain>>
       ELSE /\ sessReaders = 0
            /\ sessions' = sessions \cup {s}
            /\ handlers' = [handlers EXCEPT ![s] = <<>>]
            /\ nextHandlerId' = [nextHandlerId EXCEPT ![s] = 0]
            /\ toolHandlers' = [toolHandlers EXCEPT ![s] = tools]
            /\ permHandler' = [permHandler EXCEPT ![s] = FALSE]
            /\ destroyPc' = [destroyPc EXCEPT ![s] = "idle"]
            /\ destroyOut' = [destroyOut EXCEPT ![s] = "none"]
            /\ destroyAgain' = [destroyAgain EXCEPT ![s] = FALSE]
            /\ receivers' = [receivers EXCEPT ![s] = [x \in ReceiverIds |-> NoReceiver]]
            /\ createCall' = CreateAt("returned", "ok")
    /\ reqPc' = [reqPc EXCEPT ![CreateCaller] = "idle"]
    /\ UNCHANGED <<pending, slot, reqArg, reqOut, workerVars, handlerVars, notifVars,
                   wireVars, clientVars, startVars, sessReaders, sessWriterWaiting, taskVars, onVars, sawPc,
                   sawLast, sawOut, histVars, optVars, hdrVars, raceVars, procVars, arcVars, notifyLog, sentNotes,
                   lostSessions, lostNotified, stopEntry>>

CreateSteps ==
    \/ CreateBegin("create", 0)
    \/ \E arg \in SessionIds : CreateBegin("resume", arg)
    \/ CreateStarted
    \/ CreateRequest
    \/ \E tools \in {{}, ToolNames} : CreateAwait(tools)

(***************************************************************************)
(* CopilotClient::start_arc (client.rs 552-568), setup_disconnect_handler  *)
(* (574-597), the task of spawn_disconnect_handler (603-613),              *)
(* handle_disconnect (619-628), reconnect (634-667) and                    *)
(* invalidate_sessions (670-680).  reconnect runs in the spawned task and  *)
(* calls start_arc itself, which installs the callback of the new engine   *)
(* and spawns the next task.                                               *)
(***************************************************************************)
arcRest == <<optVars, hdrVars, raceVars, procVars, createCall, destroyAgain, notifyLog, sentNotes, lostSessions,
             lostNotified, stopEntry>>

\* the host calls start_arc() on a new client: self_ref is stored, start() is entered
HostStartArc ==
    /\ arcPc = "idle"
    /\ startPc = "idle"
    /\ StartCall
    /\ arcPc' = "start"
    /\ UNCHANGED <<onDisconnectSet, rcPc, rcTodo, arcRest>>

\* self.start().await? has returned; if self.auto_restart { setup_disconnect_handler }.
\* When the caller is reconnect, an Err makes it store ConnectionState::Error.
ArcStarted ==
    /\ arcPc = "start"
    /\ startPc = "returned"
    /\ IF startOut = "ok"
       THEN /\ arcPc' = IF autoRestart THEN "setup" ELSE "returned"
            /\ UNCHANGED <<state, rcPc>>
       ELSE /\ arcPc' = "returned"
            /\ state' = IF rcPc = "start" THEN "Error" ELSE state
            /\ rcPc' = IF rcPc = "start" THEN "none" ELSE rcPc
    /\ UNCHANGED <<reqVars, workerVars, handlerVars, notifVars, wireVars, isExternal,
                   rpcInstalled, stopPc, stopKind, stopTodo, stopErrors, startVars,
                   regVars, taskVars, onVars, sessVars, histVars, onDisconnectSet, rcTodo,
                   arcRest>>

\* setup_disconnect_handler: return when rpc_client is None; else a channel is made,
\* rpc.set_on_disconnect(callback) (jsonrpc.rs 576-579), and the task is spawned
ArcSetup ==
    /\ arcPc = "setup"
    /\ arcPc' = "returned"
    /\ IF rpcInstalled
       THEN /\ onDisconnectSet' = TRUE
            /\ rcPc' = "waiting"
       ELSE /\ rcPc' = IF rcPc = "start" THEN "none" ELSE rcPc
            /\ UNCHANGED onDisconnectSet
    /\ UNCHANGED <<reqVars, workerVars, handlerVars, notifVars, wireVars, clientVars,
                   startVars, regVars, taskVars, onVars, sessVars, histVars, rcTodo,
                   arcRest>>

\* a handle_disconnect that ignores the state
ShouldReconnectAnyState(restart, st) == restart

\* self.auto_restart && *state == ConnectionState::Connected
ShouldReconnect(restart, st) == restart /\ st = "Connected"

\* rx.recv().await.is_some(): the callback has sent on the channel; handle_disconnect
RcRecv ==
    /\ rcPc = "waiting"
    /\ disconnects > 0
    /\ rcPc' = IF ShouldReconnect(autoRestart, state) THEN "reconnect" ELSE "none"
    /\ UNCHANGED <<reqVars, workerVars, handlerVars, notifVars, wireVars, clientVars,
                   startVars, regVars, taskVars, onVars, sessVars, histVars,
                   onDisconnectSet, arcPc, rcTodo, arcRest>>

\* an invalidate_sessions that collects nothing
InvalidateSnapshotNone(reg) == {}

\* guard.values().cloned().collect() under sessions.read()
InvalidateSnapshot(reg) == reg

\* reconnect enters invalidate_sessions
RcSnapshot ==
    /\ rcPc = "reconnect"
    /\ RegistryReadable
    /\ rcTodo' = InvalidateSnapshot(sessions)
    /\ rcPc' = "invalidate"
    /\ UNCHANGED <<reqVars, workerVars, handlerVars, notifVars, wireVars, clientVars,
                   startVars, regVars, taskVars, onVars, sessVars, histVars,
                   onDisconnectSet, arcPc, arcRest>>

\* the value of the synthetic error event
ConnectionLost == -1

\* session.dispatch_error("Connection lost"): a session.error event is broadcast to the
\* receivers of the session and handed to its on() callbacks
DispatchError(s) ==
    /\ receivers' = [receivers EXCEPT
                        ![s] = BroadcastSend(@, Event("session.error", ConnectionLost))]
    /\ delivered' = IF handlers[s] # <<>>
                    THEN [delivered EXCEPT ![s] = Append(@, ConnectionLost)]
                    ELSE delivered

\* history: the session, the state, the number of start() calls and the live receivers
\* of the session when dispatch_error is called on it
LostEntry(s) ==
    [sid |-> s, state |-> state, starts |-> starts,
     subscribers |-> {r \in ReceiverIds : receivers[s][r].live}]

\* for session in sessions { session.dispatch_error("Connection lost").await }
RcInvalidate(s) ==
    /\ rcPc = "invalidate"
    /\ s \in rcTodo
    /\ DispatchError(s)
    /\ rcTodo' = rcTodo \ {s}
    /\ lostNotified' = lostNotified \cup {LostEntry(s)}
    /\ UNCHANGED <<reqVars, workerVars, handlerVars, notifVars, wireVars, clientVars,
                   startVars, regVars, taskVars, onVars, handlers, nextHandlerId,
                   toolHandlers, permHandler, destroyPc, destroyOut, sawPc, sawLast,
                   sawOut, completions, lateDelivered, afterDestroy, sawTerms, sawLagged,
                   toolHist, optVars, hdrVars, raceVars, procVars, onDisconnectSet, arcPc, rcPc, createCall,
                   destroyAgain, notifyLog, sentNotes, lostSessions, stopEntry>>

\* *state = ConnectionState::Disconnected
RcDisconnected ==
    /\ rcPc = "invalidate"
    /\ rcTodo = {}
    /\ state' = "Disconnected"
    /\ rcPc' = "stop"
    /\ UNCHANGED <<reqVars, workerVars, handlerVars, notifVars, wireVars, isExternal,
                   rpcInstalled, stopPc, stopKind, stopTodo, stopErrors, startVars,
                   regVars, taskVars, onVars, sessVars, histVars, onDisconnectSet, arcPc,
                   rcTodo, arcRest>>

\* let _ = self.stop().await: the call
RcStop ==
    /\ rcPc = "stop"
    /\ StopCall("stop")
    /\ rcPc' = "stopping"
    /\ UNCHANGED <<optVars, hdrVars, raceVars, procVars, onDisconnectSet, arcPc, rcTodo, createCall, destroyAgain,
                   notifyLog, sentNotes, lostSessions, lostNotified>>

\* ... has returned, whatever its result
RcStopped ==
    /\ rcPc = "stopping"
    /\ stopPc = "returned"
    /\ stopPc' = "idle"
    /\ rcPc' = "restart"
    /\ UNCHANGED <<reqVars, workerVars, handlerVars, notifVars, wireVars, isExternal,
                   rpcInstalled, state, stopKind, stopTodo, stopErrors, startVars,
                   regVars, taskVars, onVars, sessVars, histVars, onDisconnectSet, arcPc,
                   rcTodo, arcRest>>

\* self_ref upgrades: arc_self.start_arc().await
RcRestart ==
    /\ rcPc = "restart"
    /\ StartCall
    /\ arcPc' = "start"
    /\ rcPc' = "start"
    /\ UNCHANGED <<onDisconnectSet, rcTodo, arcRest>>

ArcSteps == ArcStarted \/ ArcSetup

ReconnectSteps ==
    \/ RcRecv \/ RcSnapshot
    \/ \E s \in SessionIds : RcInvalidate(s)
    \/ RcDisconnected \/ RcStop \/ RcStopped \/ RcRestart

(***************************************************************************)
(* JsonRpcClient::set_on_disconnect (jsonrpc.rs 576-579) and               *)
(* JsonRpcClient::stop (703-707), called on the engine itself.             *)
(***************************************************************************)
lifeRest == <<optVars, hdrVars, raceVars, procVars, arcPc, rcPc, rcTodo, createCall, destroyAgain, notifyLog, sentNotes,
              lostSessions, lostNotified, stopEntry>>

\* *self.on_disconnect.write().await = Some(handler)
SetOnDisconnect ==
    /\ rpcInstalled
    /\ ~onDisconnectSet
    /\ onDisconnectSet' = TRUE
    /\ UNCHANGED <<reqVars, workerVars, handlerVars, notifVars, wireVars, clientVars,
                   startVars, regVars, taskVars, onVars, sessVars, histVars, lifeRest>>

\* running.store(false); let _ = write_tx.send(WriteMessage::Stop).await
EngineStop ==
    /\ running
    /\ running' = FALSE
    /\ Len(writeQ) < WriteQueueCapacity
    /\ writeQ' = IF WriteChannelClosed THEN writeQ ELSE Append(writeQ, StopMsg)
    /\ UNCHANGED <<reqVars, writerPc, readerPc, handlerVars, notifVars, wireVars,
                   clientVars, startVars, regVars, taskVars, onVars, sessVars, histVars,
                   lifeVars>>

(***************************************************************************)
(* The peer (the CLI server): any behaviour, within the bounds.            *)
(***************************************************************************)
PeerCanSend == peerOpen /\ peerSent < MaxPeerFrames /\ Len(inWire) < MaxInFlight
SentLate == stopPc = "returned"

PeerSends(f) ==
    /\ PeerCanSend
    /\ inWire' = Append(inWire, f)
    /\ peerSent' = peerSent + 1
    /\ UNCHANGED <<peerInbox, peerOpen>>

\* the result the server gives to a request, and the error it may give instead
ServerResult(req) == Body(req.body.sid, "result", req.body.val)
ServerError == Body(0, "error", -32000)

\* a response to a request the peer has received: the id echoed as it was sent
\* (a string), or as a number
PeerRespond(req, idt, ok) ==
    /\ req \in peerInbox
    /\ HasMethod(req)
    /\ PeerSends(Frame([t |-> idt, v |-> req.id.v], NoMethod, ok,
                       IF ok THEN ServerResult(req) ELSE ServerError, SentLate))
    /\ UNCHANGED <<reqVars, workerVars, handlerVars, notifVars, clientVars, startVars, lifeVars, regVars,
                   taskVars, onVars, sessVars, histVars>>

\* a notification other than session.event
PeerNote ==
    /\ PeerSends(Frame(NoId, "note", TRUE, Body(0, "", peerSent + 1), SentLate))
    /\ UNCHANGED <<reqVars, workerVars, handlerVars, notifVars, clientVars, startVars, lifeVars, regVars,
                   taskVars, onVars, sessVars, histVars>>

\* a session.event notification {sessionId, event}
PeerEvent(sid, typ) ==
    /\ PeerSends(Frame(NoId, "session.event", TRUE, Body(sid, typ, peerSent + 1), SentLate))
    /\ UNCHANGED <<reqVars, workerVars, handlerVars, notifVars, clientVars, startVars, lifeVars, regVars,
                   taskVars, onVars, sessVars, histVars>>

\* the server emits the events of a turn once it has received session.send
TurnEventTypes == {"assistant.message", "session.idle", "session.error"}
TurnEvent(sid, typ) ==
    /\ \E req \in peerInbox : req.method = "session.send" /\ req.body.sid = sid
    /\ PeerEvent(sid, typ)

\* an inbound request: tool.call, or a method nobody handles
PeerToolCall(sid, tool) ==
    /\ PeerSends(Frame(NumId(peerSent + 1), "tool.call", TRUE, Body(sid, tool, peerSent + 1),
                       SentLate))
    /\ UNCHANGED <<reqVars, workerVars, handlerVars, notifVars, clientVars, startVars, lifeVars, regVars,
                   taskVars, onVars, sessVars, histVars>>

PeerUnknownRequest ==
    /\ PeerSends(Frame(NumId(peerSent + 1), "unknown.method", TRUE, Body(0, "", 0),
                       SentLate))
    /\ UNCHANGED <<reqVars, workerVars, handlerVars, notifVars, clientVars, startVars, lifeVars, regVars,
                   taskVars, onVars, sessVars, histVars>>

\* a tool.call request whose body lacks the "jsonrpc" member
PeerUnversionedRequest(sid, tool) ==
    /\ PeerSends(Unversioned(Frame(NumId(peerSent + 1), "tool.call", TRUE,
                                   Body(sid, tool, peerSent + 1), SentLate)))
    /\ UNCHANGED <<reqVars, workerVars, handlerVars, notifVars, clientVars, startVars, lifeVars, regVars,
                   taskVars, onVars, sessVars, histVars>>

\* an inbound permission.request {sessionId, permissionRequest}
PeerPermissionRequest(sid) ==
    /\ PeerSends(Frame(NumId(peerSent + 1), "permission.request", TRUE,
                       Body(sid, "shell", peerSent + 1), SentLate))
    /\ UNCHANGED <<reqVars, workerVars, handlerVars, notifVars, clientVars, startVars, lifeVars, regVars,
                   taskVars, onVars, sessVars, histVars>>

\* the result the server gives to a ping, with protocolVersion version
PeerPong(req, version) ==
    /\ req \in peerInbox
    /\ req.method = "ping"
    /\ PeerSends(Frame(req.id, NoMethod, TRUE, Pong(version), SentLate))
    /\ UNCHANGED <<reqVars, workerVars, handlerVars, notifVars, clientVars, startVars, lifeVars, regVars,
                   taskVars, onVars, sessVars, histVars>>

\* the result the server gives to session.create / session.resume: the id of the
\* session (0: a result without "sessionId")
PeerCreated(req, sid) ==
    /\ req \in peerInbox
    /\ req.method \in {"session.create", "session.resume"}
    /\ PeerSends(Frame(req.id, NoMethod, TRUE, Body(sid, "result", 0), SentLate))
    /\ UNCHANGED <<reqVars, workerVars, handlerVars, notifVars, clientVars, startVars, lifeVars, regVars,
                   taskVars, onVars, sessVars, histVars>>

\* a notification with one of two methods, its params numbered in the order of
\* writing; the transport holds any number of frames in flight
NoteMethods == {"a", "b"}
PeerNotify(method) ==
    /\ peerOpen
    /\ peerSent < MaxPeerFrames
    /\ LET body == Body(0, "", Len(sentNotes) + 1) IN
       /\ inWire' = Append(inWire, Frame(NoId, method, TRUE, body, SentLate))
       /\ sentNotes' = Append(sentNotes, <<method, body>>)
    /\ peerSent' = peerSent + 1
    /\ UNCHANGED <<reqVars, workerVars, handlerVars, notifVars, peerInbox, peerOpen,
                   clientVars, startVars, regVars, taskVars, onVars, sessVars, histVars,
                   optVars, hdrVars, raceVars, procVars, arcVars, createCall, destroyAgain, notifyLog, lostSessions,
                   lostNotified, stopEntry>>

\* a body with neither id nor method
PeerJunk ==
    /\ PeerSends(Frame(NoId, NoMethod, TRUE, Body(0, "", 0), SentLate))
    /\ UNCHANGED <<reqVars, workerVars, handlerVars, notifVars, clientVars, startVars, lifeVars, regVars,
                   taskVars, onVars, sessVars, histVars>>

\* the peer closes its end (exit, crash, dropped connection)
PeerClose ==
    /\ peerOpen
    /\ peerOpen' = FALSE
    /\ UNCHANGED <<reqVars, workerVars, handlerVars, notifVars, peerInbox, inWire,
                   peerSent, clientVars, startVars, lifeVars, regVars, taskVars, onVars, sessVars, histVars>>

(***************************************************************************)
(* The engine under a connected client: session 1 is registered, the host  *)
(* has called on() once (handler id 0) and register_tools for tool "t".    *)
(***************************************************************************)
InitEngineWith(live) ==
    /\ running = live
    /\ pending = EmptyMap
    /\ slot = [c \in Callers |-> EmptySlot]
    /\ reqPc = [c \in Callers |-> "idle"]
    /\ reqArg = [c \in Callers |-> Arg("", NoBody)]
    /\ reqOut = [c \in Callers |-> NoResult]
    /\ writeQ = <<>>
    /\ writerPc = (IF live THEN "top" ELSE "none")
    /\ readerPc = (IF live THEN "top" ELSE "none")
    /\ hPc = "idle"
    /\ hReq = NoFrame
    /\ notifLog = <<>>
    /\ disconnects = 0
    /\ peerInbox = {}
    /\ inWire = <<>>
    /\ peerOpen = live
    /\ peerSent = 0
    /\ completions = [c \in Callers |-> 0]
    /\ lateDelivered = {}
    /\ toolLog = <<>>

\* the engine of a started client: both workers spawned, the peer's end open
InitEngine == InitEngineWith(TRUE)

InitClient(external) ==
    /\ isExternal = external
    /\ rpcInstalled = TRUE
    /\ state = "Connected"
    /\ stopPc = "idle"
    /\ stopKind = "none"
    /\ stopTodo = {}
    /\ stopErrors = 0
    /\ startPc = "returned"
    /\ startOut = "ok"
    /\ starts = 1
    /\ startEntry = StartEntry("Disconnected", 0, 0)
    /\ spawns = IF external THEN 0 ELSE 1
    /\ procs = spawns /\ procOwned = spawns
    /\ installs = 1
    /\ sessions = SessionIds
    /\ sessReaders = 0
    /\ sessWriterWaiting = FALSE
    /\ tasks = <<>>

InitSession ==
    /\ handlers = [s \in SessionIds |-> <<0>>]
    /\ nextHandlerId = [s \in SessionIds |-> 1]
    /\ toolHandlers = [s \in SessionIds |-> ToolNames]
    /\ permHandler = [s \in SessionIds |-> FALSE]
    /\ destroyPc = [s \in SessionIds |-> "idle"]
    /\ destroyOut = [s \in SessionIds |-> "none"]
    /\ receivers = [s \in SessionIds |-> [r \in ReceiverIds |-> NoReceiver]]
    /\ sawPc = "idle"
    /\ sawLast = 0
    /\ sawOut = NoSawResult
    /\ delivered = [s \in SessionIds |-> <<>>]
    /\ afterDestroy = {}
    /\ sawTerms = <<>>
    /\ sawLagged = FALSE
    /\ handlerReaders = [s \in SessionIds |-> 0]
    /\ deferred = {}
    /\ unsubscribed = {}
    /\ dispatchLog = <<>>

NoCreate == [kind |-> "none", arg |-> 0, pc |-> "idle", out |-> "none", state |-> "none",
             sessions |-> {}]
NoStopEntry == [state |-> "none", sessions |-> {}]

\* the options, and a client on which start_arc, create_session, notify and a second
\* destroy() have not been called
InitOptions(start, restart) ==
    /\ autoStart = start
    /\ autoRestart = restart
    /\ onDisconnectSet = FALSE
    /\ arcPc = "idle"
    /\ rcPc = "none"
    /\ rcTodo = {}
    /\ createCall = NoCreate
    /\ destroyAgain = [s \in SessionIds |-> FALSE]
    /\ notifyLog = <<>>
    /\ sentNotes = <<>>
    /\ lostSessions = {}
    /\ lostNotified = {}
    /\ stopEntry = NoStopEntry

\* no byte has arrived on the transport
InitNoInput ==
    /\ hdrStream = <<>>
    /\ hdrPc = "header"
    /\ hdrLen = 0
    /\ hdrLog = <<>>
    /\ hdrAlloc = <<>>
    /\ hdrBodies = 0
    /\ hdrBlock = <<>>

NoHostStop == [pc |-> "none", spawns |-> 0, installs |-> 0]

\* the host has made no call that overlaps another
InitNoOverlap ==
    /\ hostStop = NoHostStop
    /\ start2Pc = "idle"
    /\ start2Out = "none"

InitLife(start, restart) == InitOptions(start, restart) /\ InitNoInput /\ InitNoOverlap

\* the client spawned its server
Init == InitEngine /\ InitClient(FALSE) /\ InitSession /\ InitLife(TRUE, TRUE)

\* a client that new() has built and start() has not been called on (client.rs
\* 140-152): no process, no engine, no session
InitNew ==
    /\ InitEngineWith(FALSE) /\ InitSession
    /\ \E external \in BOOLEAN : isExternal = external
    /\ rpcInstalled = FALSE
    /\ state = "Disconnected"
    /\ stopPc = "idle" /\ stopKind = "none" /\ stopTodo = {} /\ stopErrors = 0
    /\ sessions = {} /\ sessReaders = 0 /\ sessWriterWaiting = FALSE /\ tasks = <<>>
    /\ startPc = "idle" /\ startOut = "none" /\ starts = 0
    /\ startEntry = StartEntry("Disconnected", 0, 0)
    /\ spawns = 0 /\ installs = 0
    /\ procs = 0 /\ procOwned = 0

InitStart == InitNew /\ InitLife(TRUE, TRUE)

\* the same client, built with auto_start set or not, and without auto_restart
InitCreate == InitNew /\ \E start \in BOOLEAN : InitLife(start, FALSE)

\* the client spawned its server, or connected to an external one (cli_url)
InitStop ==
    /\ InitEngine /\ (\E external \in BOOLEAN : InitClient(external)) /\ InitSession
    /\ InitLife(TRUE, TRUE)

RequestSteps ==
    \E c \in Callers : ReqInsert(c) \/ ReqEnqueue(c) \/ ReqWake(c) \/ ReqCleanup(c)

HandlerSteps ==
    \/ ToolCallStart \/ ToolNestedCall
    \/ \E ok \in BOOLEAN : ToolReturn(ok)
    \/ ToolPanics

StopSteps ==
    \/ \E kind \in {"stop", "force_stop"} : StopBegin(kind)
    \/ \E s \in SessionIds : StopDestroyCall(s) \/ StopDestroyed(s)
    \/ \E s \in SessionIds : DestroyAwait(s) \/ DestroyClear(s)
    \/ StopClear \/ StopRpc

PeerRespondSteps ==
    \E req \in peerInbox, idt \in {"string", "number"}, ok \in BOOLEAN :
        PeerRespond(req, idt, ok)

\* Spec: host tasks ping concurrently; the peer answers in any order, more than once,
\* with the id as a string or as a number, or closes its end
Next ==
    \/ \E c \in HostCallers : ClientPing(c)
    \/ RequestSteps
    \/ WriterCheck \/ WriterRecv
    \/ ReaderCheck \/ ReaderEof \/ ReaderResponse
    \/ PeerRespondSteps
    \/ PeerClose

Spec == Init /\ [][Next]_vars

\* every step of the SDK that is enabled is eventually taken (the runtime polls every
\* runnable task); nothing is assumed of the host or of the peer
SdkSteps ==
    \/ RequestSteps
    \/ WriterCheck \/ WriterRecv
    \/ ReaderCheck \/ ReaderEof \/ ReaderResponse

SpecFair == Spec /\ WF_vars(SdkSteps)

\* SpecStop: the host also calls stop() or force_stop()
NextStop ==
    \/ \E c \in HostCallers : ClientPing(c)
    \/ RequestSteps
    \/ WriterCheck \/ WriterRecv
    \/ ReaderCheck \/ ReaderEof \/ ReaderResponse \/ ReaderNotification
    \/ \E req \in peerInbox, ok \in BOOLEAN : PeerRespond(req, "string", ok)
    \/ PeerNote
    \/ PeerClose
    \/ StopSteps

SpecStop == InitStop /\ [][NextStop]_vars

\* SpecStart: the host calls start(), and ping() at any time; the spawn or the
\* connection may fail; the server answers pings with any protocolVersion or none, or
\* with an error
StartSteps ==
    \/ StartBegin
    \/ \E ok \in BOOLEAN : StartSpawn(ok) \/ StartConnect(ok)
    \/ StartVerify \/ StartVerified

NextStart ==
    \/ StartSteps
    \/ ClientPing(1)
    \/ RequestSteps
    \/ WriterCheck \/ WriterRecv
    \/ ReaderCheck \/ ReaderResponse
    \/ \E req \in peerInbox, version \in Versions : PeerPong(req, version)
    \/ \E req \in peerInbox : PeerRespond(req, "string", FALSE)

SpecStart == InitStart /\ [][NextStart]_vars

\* SpecHandler: the peer also issues inbound requests
NextHandler ==
    \/ ClientPing(1)
    \/ RequestSteps
    \/ WriterCheck \/ WriterRecv
    \/ ReaderCheck \/ ReaderEof \/ ReaderResponse \/ ReaderNotification
    \/ ReaderDiscard \/ ReaderServerRequest
    \/ HandlerSteps
    \/ PeerRespondSteps
    \/ PeerNote
    \/ \E sid \in WireSessionIds, tool \in WireToolNames : PeerToolCall(sid, tool)
    \/ PeerUnknownRequest
    \/ PeerUnversionedRequest(1, "t")
    \/ PeerPermissionRequest(1)
    \/ PeerJunk
    \/ PeerClose

SpecHandler == Init /\ [][NextHandler]_vars

\* SpecTools: the peer issues tool.call requests for registered and unregistered
\* sessions and tools; the host's tool handlers return a result or an error, or panic
NextTools ==
    \/ WriterCheck \/ WriterRecv
    \/ ReaderCheck \/ ReaderServerRequest
    \/ ToolCallStart
    \/ \E ok \in BOOLEAN : ToolReturn(ok)
    \/ ToolPanics
    \/ \E sid \in WireSessionIds, tool \in WireToolNames : PeerToolCall(sid, tool)
    \/ PeerClose

SpecTools == Init /\ [][NextTools]_vars

TaskSteps == \E i \in 1..Len(tasks) : TaskStart(i) \/ TaskCall(i)

\* SpecEvents: the peer streams session.event notifications; the host holds an on()
\* callback, may take a receiver from subscribe(), and may destroy the session
NextEvents ==
    \/ \E s \in SessionIds : HostSubscribe(s) \/ HostDestroy(s)
    \/ \E s \in SessionIds : DestroyAwait(s) \/ DestroyClear(s)
    \/ RequestSteps
    \/ WriterCheck \/ WriterRecv
    \/ ReaderCheck \/ ReaderResponse \/ ReaderNotification
    \/ TaskSteps
    \/ \E req \in peerInbox, ok \in BOOLEAN : PeerRespond(req, "string", ok)
    \/ \E sid \in WireSessionIds : PeerEvent(sid, "assistant.message")

SpecEvents == Init /\ [][NextEvents]_vars

\* SpecSubscribers: the host calls on() and the unsubscribe closures while the peer
\* streams events of session 1 and their dispatch tasks run
HandlerIds == 0..(MaxHandlers - 1)

NextSubscribers ==
    \/ \E s \in SessionIds : HostOn(s)
    \/ \E s \in SessionIds, id \in HandlerIds : HostUnsubscribe(s, id)
    \/ \E d \in deferred : DeferredRun(d)
    \/ ReaderCheck \/ ReaderNotification
    \/ \E i \in 1..Len(tasks) : TaskStart(i) \/ DispatchLock(i)
    \/ \E i \in 1..Len(tasks) : DispatchCalls(i, {})
    \/ \E s \in SessionIds : PeerEvent(s, "assistant.message")

SpecSubscribers == Init /\ [][NextSubscribers]_vars

\* SpecFaults: the host adds callbacks with on() and keeps them; any callbacks may
\* panic on any event
NextFaults ==
    \/ \E s \in SessionIds : HostOn(s)
    \/ \E d \in deferred : DeferredRun(d)
    \/ ReaderCheck \/ ReaderNotification
    \/ \E i \in 1..Len(tasks) : TaskStart(i) \/ DispatchLock(i)
    \/ \E i \in 1..Len(tasks), bad \in SUBSET HandlerIds : DispatchCalls(i, bad)
    \/ \E s \in SessionIds : PeerEvent(s, "assistant.message")

SpecFaults == Init /\ [][NextFaults]_vars

\* SpecGraceful: the host calls stop() on a connected client with a registered session;
\* the peer answers session.destroy with a result or an error, or not at all, or closes
NextGraceful ==
    \/ StopBegin("stop")
    \/ \E s \in SessionIds : StopDestroyCall(s) \/ StopDestroyed(s)
    \/ \E s \in SessionIds : DestroyAwait(s) \/ DestroyClear(s)
    \/ StopClear \/ StopRpc
    \/ RequestSteps
    \/ WriterCheck \/ WriterRecv
    \/ ReaderCheck \/ ReaderEof \/ ReaderResponse
    \/ \E req \in peerInbox, ok \in BOOLEAN : PeerRespond(req, "string", ok)
    \/ PeerClose

SpecGraceful == InitStop /\ [][NextGraceful]_vars

\* SpecForceStop: the host calls force_stop() on a client that was never started, whose
\* start() failed, or that is connected, with or without a registered session
InitForceStop == InitStart \/ InitStop

NextForceStop ==
    \/ stopPc = "idle" /\ StartSteps
    \/ startPc \in {"idle", "returned"} /\ StopBegin("force_stop")
    \/ StopClear \/ StopRpc
    \/ RequestSteps
    \/ WriterCheck \/ WriterRecv
    \/ ReaderCheck \/ ReaderEof \/ ReaderResponse
    \/ \E req \in peerInbox, version \in Versions : PeerPong(req, version)
    \/ \E req \in peerInbox : PeerRespond(req, "string", FALSE)

SpecForceStop == InitForceStop /\ [][NextForceStop]_vars

\* SpecDestroy: the host calls destroy() on the session and, once it has returned Ok,
\* calls it again; the server answers each session.destroy with a result or an error
NextDestroy ==
    \/ \E s \in SessionIds : HostDestroy(s) \/ HostDestroyAgain(s)
    \/ \E s \in SessionIds : DestroyAwait(s) \/ DestroyClear(s)
    \/ RequestSteps
    \/ WriterCheck \/ WriterRecv
    \/ ReaderCheck \/ ReaderResponse
    \/ \E req \in peerInbox, ok \in BOOLEAN : PeerRespond(req, "string", ok)

SpecDestroy == Init /\ [][NextDestroy]_vars

\* SpecNotify: the host calls notify() and ping(); the peer writes notifications,
\* answers the pings, or closes its end
NextNotify ==
    \/ \E method \in NoteMethods : HostNotify(method)
    \/ ClientPing(1)
    \/ RequestSteps
    \/ WriterCheck \/ WriterRecv
    \/ ReaderCheck \/ ReaderEof \/ ReaderResponse \/ ReaderNotification
    \/ \E method \in NoteMethods : PeerNotify(method)
    \/ \E req \in peerInbox : HasId(req) /\ PeerRespond(req, "string", TRUE)
    \/ PeerClose

SpecNotify == Init /\ [][NextNotify]_vars

\* SpecDisconnect: a callback is installed on the engine at any time; the peer writes
\* notifications and closes its end; the host stops the engine
NextDisconnect ==
    \/ SetOnDisconnect
    \/ EngineStop
    \/ WriterCheck \/ WriterRecv
    \/ ReaderCheck \/ ReaderEof \/ ReaderNotification
    \/ PeerNote
    \/ PeerClose

SpecDisconnect == Init /\ [][NextDisconnect]_vars

\* SpecCreate: the host calls start(), create_session and resume_session one after the
\* other on a new client; the spawn or the connection may fail; the server answers
\* pings and session.create / session.resume, with or without a sessionId, or with an
\* error
NextCreate ==
    \/ createCall.pc \in {"idle", "returned"} /\ StartBegin
    \/ \E ok \in BOOLEAN : StartSpawn(ok) \/ StartConnect(ok)
    \/ StartVerify \/ StartVerified
    \/ CreateSteps
    \/ RequestSteps
    \/ WriterCheck \/ WriterRecv
    \/ ReaderCheck \/ ReaderResponse
    \/ \E req \in peerInbox, version \in Versions : PeerPong(req, version)
    \/ \E req \in peerInbox, sid \in SessionIds \cup {0} : PeerCreated(req, sid)
    \/ \E req \in peerInbox : PeerRespond(req, "string", FALSE)

SpecCreate == InitCreate /\ [][NextCreate]_vars

\* SpecRestart: the host connects a new client with start() or with start_arc(), with
\* auto_restart set or not, calls create_session while Connected and subscribes to the
\* sessions it has; the peer
\* answers, and drops its side of the transport at any time; a spawn or a connection
\* may fail.  SpecRestartFair: every enabled step of the SDK is eventually taken, and
\* a server that has received a ping answers it.  The server answers a session.create
\* once, with an id that no registered session has.  The stop() of reconnect runs after
\* the read worker has left its loop, so no destroy() of its loop is answered.
InitRestart == InitNew /\ \E restart \in BOOLEAN : InitLife(TRUE, restart)

SdkRestartSteps ==
    \/ \E ok \in BOOLEAN : StartSpawn(ok) \/ StartConnect(ok)
    \/ StartVerify \/ StartVerified
    \/ ArcSteps
    \/ ReconnectSteps
    \/ \E s \in SessionIds : StopDestroyCall(s) \/ StopDestroyed(s)
    \/ \E s \in SessionIds : DestroyAwait(s)
    \/ StopClear \/ StopRpc
    \/ CreateRequest
    \/ \E tools \in {{}, ToolNames} : CreateAwait(tools)
    \/ RequestSteps
    \/ WriterCheck \/ WriterRecv
    \/ ReaderCheck \/ ReaderEof \/ ReaderResponse

\* the server has not yet answered the request: its call is waiting and no response to
\* it is on the wire
Unanswered(req) ==
    /\ req.id.v \in DOMAIN pending
    /\ ~slot[req.id.v].full
    /\ \A i \in DOMAIN inWire : HasMethod(inWire[i]) \/ inWire[i].id.v # req.id.v

PeerAnswersPing == \E req \in peerInbox, version \in Versions : PeerPong(req, version)

NextRestart ==
    \/ arcPc = "idle" /\ startPc = "idle" /\ StartBegin
    \/ HostStartArc
    \/ state = "Connected" /\ CreateBegin("create", 0)
    \/ \E s \in sessions : HostSubscribe(s)
    \/ SdkRestartSteps
    \/ PeerAnswersPing
    \/ \E req \in peerInbox, sid \in SessionIds \ sessions :
          Unanswered(req) /\ PeerCreated(req, sid)
    \/ starts < MaxStarts /\ PeerClose

SpecRestart == InitRestart /\ [][NextRestart]_vars

SpecRestartFair == SpecRestart /\ WF_vars(SdkRestartSteps) /\ WF_vars(PeerAnswersPing)

\* SpecSendWait: the host calls send_and_wait once; the peer answers session.send or
\* not, and emits any events of the turn; the connection stays up
SawSteps ==
    \E s \in SessionIds : SawBegin(s) \/ SawSendReturned(s) \/ SawRecv(s) \/ SawTimeout(s)

NextSendWait ==
    \/ SawSteps
    \/ RequestSteps
    \/ WriterCheck \/ WriterRecv
    \/ ReaderCheck \/ ReaderResponse \/ ReaderNotification
    \/ TaskSteps
    \/ \E req \in peerInbox, ok \in BOOLEAN : PeerRespond(req, "string", ok)
    \/ \E s \in SessionIds, typ \in TurnEventTypes : TurnEvent(s, typ)

SpecSendWait == Init /\ [][NextSendWait]_vars

\* every step of the SDK that is enabled is eventually taken (the runtime polls every
\* runnable task, timers fire); nothing is assumed of the peer
SdkSendWaitSteps ==
    \/ SawSteps
    \/ RequestSteps
    \/ WriterCheck \/ WriterRecv
    \/ ReaderCheck \/ ReaderResponse \/ ReaderNotification
    \/ TaskSteps

SpecSendWaitFair == SpecSendWait /\ WF_vars(SdkSendWaitSteps)

(***************************************************************************)
(* Claims about the engine.                                                *)
(***************************************************************************)
Awaiting(c) == reqPc[c] = "await" /\ ~slot[c].full
Answered(c) == reqPc[c] = "done" /\ reqOut[c].kind \in {"ok", "rpc_error"}

\* C1: a request() call is completed by at most one response; once it has returned its
\* id is not in the pending table; and when the transport has shut down (the read
\* worker has exited) a call that is still waiting eventually returns.
C1_RequestCompletesOnce ==
    /\ [](\A c \in Callers :
            /\ reqPc[c] = "done" => c \notin DOMAIN pending
            /\ completions[c] <= 1)
    /\ \A c \in Callers :
          (readerPc = "exited" /\ reqPc[c] = "await") ~> (reqPc[c] = "done")

\* C2: with several calls outstanding and answered in any order, a call completed by a
\* response got the response whose id is the string it sent, carrying the result the
\* peer gave for that request; no call is completed twice; and once every call has
\* been answered the pending table is empty.
C2_EachCallGetsItsOwnResponse ==
    /\ \A c \in Callers :
        /\ slot[c].full => slot[c].resp.id = StrId(c)
        /\ Answered(c) => reqOut[c].rid = StrId(c)
        /\ reqPc[c] = "done" /\ reqOut[c].kind = "ok"
             => reqOut[c].body = ServerResult(RequestFrame(c, reqArg[c].method, reqArg[c].body))
        /\ completions[c] <= 1
    /\ (\A c \in HostCallers : Answered(c)) => pending = EmptyMap

\* every host call has been woken by a successful response and none has returned yet:
\* all of them were outstanding at once
C2_Witness ==
    \A c \in HostCallers : reqPc[c] = "cleanup" /\ slot[c].resp.ok

\* C3: once stop() or force_stop() has returned, no request() call is still waiting.
C3_NoCallWaitingAfterStop ==
    stopPc = "returned" => \A c \in Callers : ~Awaiting(c)

\* C4: no frame the peer sends after stop() has returned is dispatched (no call
\* completed by it, no notification handler and no request handler invoked for it).
C4_NothingDeliveredAfterStop ==
    lateDelivered = {}

\* C10: while the handler of an inbound request is running, the read worker is not
\* held up by it: it is reading (or has left its loop), not awaiting the handler.
C10_ReaderNotBlockedByHandler ==
    hPc \in {"tool", "tool_wait"} => readerPc # "handler"

\* the read worker takes a body that has both "id" and "method" off the wire
TakesServerRequest ==
    /\ readerPc = "read" /\ readerPc' # "read"
    /\ inWire # <<>>
    /\ HasId(Head(inWire)) /\ HasMethod(Head(inWire))

\* this step appends a response frame to the write queue
EnqueuesResponse ==
    /\ Len(writeQ') = Len(writeQ) + 1
    /\ ~writeQ'[Len(writeQ')].stop
    /\ ~HasMethod(writeQ'[Len(writeQ')].frame)

EnqueuedResponse == writeQ'[Len(writeQ')].frame

\* the handler's future completes with a value or an error
HandlerCompletes == hPc # "idle" /\ hPc' = "idle" /\ readerPc' = "top"

\* C11: while the write worker lives, every inbound frame with a method and an id is
\* answered by exactly one response frame with the same id: at once with error -32601
\* when the method has no handler; otherwise by the step in which the handler
\* completes, a result when it succeeded and an error when it failed; and no other
\* step enqueues a response.
C11_OneResponsePerServerRequest ==
    [][/\ TakesServerRequest /\ ~WriteChannelClosed =>
            LET f == Head(inWire) IN
            IF f.method \in RequestHandlers
            THEN readerPc' = "handler" /\ hReq' = f /\ ~EnqueuesResponse
            ELSE /\ EnqueuesResponse
                 /\ EnqueuedResponse.id = f.id
                 /\ ~EnqueuedResponse.ok
                 /\ EnqueuedResponse.body.val = METHOD_NOT_FOUND
       /\ HandlerCompletes /\ ~WriteChannelClosed =>
            /\ EnqueuesResponse
            /\ EnqueuedResponse.id = hReq.id
            /\ EnqueuedResponse.ok = ToolPayloadValid(hReq.body)
       /\ EnqueuesResponse => TakesServerRequest \/ HandlerCompletes
      ]_vars

\* the response frames with the id of req that are queued for writing or written
QueuedResponsesTo(req) ==
    {i \in DOMAIN writeQ :
        ~writeQ[i].stop /\ ~HasMethod(writeQ[i].frame) /\ writeQ[i].frame.id = req.id}
WrittenResponsesTo(req) == {f \in peerInbox : ~HasMethod(f) /\ f.id = req.id}
ResponsesTo(req) == {writeQ[i].frame : i \in QueuedResponsesTo(req)} \cup WrittenResponsesTo(req)

\* the session of the tool.call is registered and has a handler for its toolName
ToolKnown(b) == b.sid \in sessions /\ b.typ \in toolHandlers[b.sid]

C13_ToolFaultBecomesFailureResult ==
    /\ readerPc # "panicked"
    /\ \A i \in DOMAIN toolLog :
          toolLog[i].out \in {"err", "panic"} =>
              /\ \A r \in ResponsesTo(toolLog[i].req) : r.ok /\ r.body.typ = "failure"
              /\ writerPc # "exited" => ResponsesTo(toolLog[i].req) # {}

\* the permission results the session's handler may produce
PermissionResults == {Body(0, "approved", 0), Denied}

\* C14: the response to a permission.request for a registered session carries the
\* request's id and is a result: the one the session's permission handler produced,
\* or a deny when the session has no handler or the handler failed.
C14_PermissionRequestGetsResult ==
    [][TakesServerRequest /\ EnqueuesResponse =>
          LET f == Head(inWire) IN
          Deserializes(f) /\ f.method = "permission.request" /\ f.body.sid \in sessions =>
              /\ EnqueuedResponse.id = f.id
              /\ EnqueuedResponse.ok
              /\ \E handlerOk \in BOOLEAN, result \in PermissionResults :
                    EnqueuedResponse.body = HandlePermissionRequest(f.body.sid, handlerOk, result)
      ]_vars

(***************************************************************************)
(* Claims about sessions.                                                  *)
(***************************************************************************)
\* the session.event notifications for session s, in the order read off the wire
WireEventFrames(s) ==
    SelectSeq(notifLog, LAMBDA n : n[1] = "session.event" /\ n[2].sid = s)
WireEvents(s) == [i \in 1..Len(WireEventFrames(s)) |-> WireEventFrames(s)[i][2].val]
IsPrefix(a, b) == Len(a) <= Len(b) /\ \A i \in 1..Len(a) : a[i] = b[i]

\* C5: the events delivered to a subscriber that was installed before the first event
\* and never unsubscribes are a prefix of the session's events in wire order.
C5_DeliveredInWireOrder ==
    \A s \in SessionIds : IsPrefix(delivered[s], WireEvents(s))

\* C6: after destroy() has returned Ok, no subscriber of the session (on() callback or
\* subscribe() receiver) is handed a further event.
C6_NoEventAfterDestroy ==
    afterDestroy = {}

LastAssistantBefore(s, term) ==
    LET w == WireEventFrames(s)
        p == CHOOSE i \in 1..Len(w) : w[i][2].val = term
        before == {i \in 1..(p - 1) : w[i][2].typ = "assistant.message"}
    IN IF before = {} THEN 0
       ELSE w[CHOOSE i \in before : \A j \in before : j <= i][2].val

\* C8: a send_and_wait that completes on session.idle returns the last
\* assistant.message of the wire before that idle (none if there was none); one that
\* completes on session.error fails with that event's message.
C8_ReturnsLastAssistantMessage ==
    \A s \in SessionIds :
        /\ sawPc = "returned" /\ sawOut.kind = "idle" =>
              sawOut.last = LastAssistantBefore(s, sawOut.term)
        /\ sawPc = "returned" /\ sawOut.kind = "session_error" =>
              sawOut.last = sawOut.term

\* C9: every send_and_wait call that was made eventually returns.
C9_SendAndWaitReturns ==
    SawInProgress ~> (sawPc = "returned")

\* the values of the events the wire carried for session s
WireEventValues(s) == {WireEvents(s)[i] : i \in DOMAIN WireEvents(s)}

\* C15: what the subscribers of a session are handed (on() callbacks and broadcast
\* receivers) are events whose sessionId is that session's id; and the task of an
\* event whose sessionId is not registered ends without changing the registry, any
\* session, the pending table or what was delivered.
C15_EventsRoutedBySessionId ==
    /\ [](\A s \in SessionIds :
            /\ \A i \in DOMAIN delivered[s] : delivered[s][i] \in WireEventValues(s)
            /\ \A r \in ReceiverIds : \A i \in DOMAIN receivers[s][r].buf :
                  receivers[s][r].buf[i].val \in WireEventValues(s))
    /\ [][\A i \in DOMAIN tasks :
            tasks[i].pc = "spawned" /\ tasks[i].sid \notin sessions
              /\ Len(tasks') < Len(tasks) /\ tasks' = DropTask(i)
            => UNCHANGED <<reqVars, regVars, sessVars, delivered, notifVars>>]_vars

\* an event for an unregistered session id has been read and its task has ended, and
\* the callback of session 1 has been handed an event of session 1
C15_Witness ==
    /\ \E i \in DOMAIN notifLog :
          notifLog[i][1] = "session.event" /\ notifLog[i][2].sid \notin SessionIds
    /\ tasks = <<>>
    /\ delivered[1] # <<>>

\* the handler ids that on() has handed out
Issued(s) == 0..(nextHandlerId[s] - 1)

\* C16: a callback is not called by a dispatch_event entered after its unsubscribe
\* closure was called; once no spawned push or retain is outstanding, an unsubscribed
\* callback is not in the handlers list, and every callback that was not unsubscribed
\* is.
C16_UnsubscribeRemovesExactlyThatHandler ==
    /\ \A k \in DOMAIN dispatchLog :
          Ids(dispatchLog[k].called) \cap dispatchLog[k].after = {}
    /\ deferred = {} =>
          \A s \in SessionIds :
              Ids(handlers[s]) = Issued(s) \ unsubscribed

C28_DestroyIsIdempotent ==
    \A s \in SessionIds :
        destroyAgain[s] /\ destroyPc[s] = "done" =>
            /\ destroyOut[s] = "ok"
            /\ handlers[s] = <<>>
            /\ toolHandlers[s] = {}
            /\ ~permHandler[s]

(***************************************************************************)
(* Claims about start().                                                   *)
(***************************************************************************)
StartReturned == startPc = "returned" /\ starts > 0
StartErrors == {"process_error", "connection_error", "request_error", "not_reported",
                "mismatch"}

C19_VersionFailureDropsConnection ==
    StartReturned /\ startOut \in {"mismatch", "not_reported"} =>
        /\ ~rpcInstalled
        /\ sessions = {}

\* C20: a start() entered while the state was Connected has failed, left the state
\* Connected, spawned no process and installed no engine.
C20_StartWhileConnectedRejected ==
    StartReturned /\ startEntry.state = "Connected" =>
        /\ startOut \in StartErrors
        /\ state = "Connected"
        /\ spawns = startEntry.spawns
        /\ installs = startEntry.installs

(***************************************************************************)
(* Claims about request() and notify().                                    *)
(***************************************************************************)
\* C30: a request() call that returned because its frame could not be enqueued (the
\* write queue is closed) has left no entry for its id in the pending table.
C30_EnqueueFailureRollsBack ==
    \A c \in Callers :
        reqPc[c] = "done" /\ reqOut[c].kind = "client_stopped" => c \notin DOMAIN pending

\* the request() call c has inserted its sender and has not been completed yet
AwaitingCompletion(c) == reqPc[c] \in {"enqueue", "await"} /\ ~slot[c].full

\* C31: the pending table holds an id only while the request() call of that id is
\* awaiting its completion, one entry per id and the entry of id c being the sender of
\* call c; hence the table is empty exactly when no request() call is awaiting.
C31_PendingOnlyWhileAwaiting ==
    /\ \A id \in DOMAIN pending : pending[id] = id /\ AwaitingCompletion(id)
    /\ pending = EmptyMap <=> \A c \in Callers : ~AwaitingCompletion(c)

\* the notifications among the frames in flight to the read worker
NotesInFlight == SelectSeq(inWire, LAMBDA f : ~HasId(f) /\ HasMethod(f))

\* C29: the step in which a notify(m, p) call completes successfully is the one that
\* appends its frame - m, p and no id - to the write queue, and it adds no pending
\* entry; the notification handler of the receiving engine is called with exactly the
\* (method, params) pairs the peer wrote, in the order they were written: what it has
\* observed and what is still in flight make up what was written.
C29_NotifyIsFireAndForgetInOrder ==
    /\ [][notifyLog' # notifyLog =>
            LET e == notifyLog'[Len(notifyLog')] IN
            /\ pending' = pending
            /\ e.out = "ok" =>
                  /\ Len(writeQ') = Len(writeQ) + 1
                  /\ LET f == writeQ'[Len(writeQ')].frame IN
                     ~HasId(f) /\ f.method = e.method /\ f.body = e.body
            /\ e.out # "ok" => writeQ' = writeQ]_vars
    /\ [](/\ IsPrefix(notifLog, sentNotes)
          /\ readerPc # "exited" =>
                notifLog \o [i \in DOMAIN NotesInFlight |-> Observed(NotesInFlight[i])]
                   = sentNotes)

\* the handler has observed three notifications that were on the wire together, a
\* notify() call has been written to the peer, and a ping is pending
C29_Witness ==
    /\ Len(notifLog) = MaxPeerFrames
    /\ notifLog[1][1] # notifLog[2][1]
    /\ \E f \in peerInbox : ~HasId(f) /\ f.method \in NoteMethods
    /\ DOMAIN pending # {}

(***************************************************************************)
(* Claims about stop(), force_stop() and create_session().                 *)
(***************************************************************************)
\* destroy() was called on session s and issued its session.destroy request
DestroyIssued(s) ==
    /\ destroyPc[s] # "idle"
    /\ reqPc[DestroyCaller] # "idle"
    /\ reqArg[DestroyCaller] = Arg("session.destroy", Body(s, "", 0))

TornDown ==
    /\ sessions = {}
    /\ ~isExternal => ~peerOpen
    /\ ~rpcInstalled
    /\ ~running
    /\ state = "Disconnected"

FramesOut == {writeQ[i].frame : i \in {j \in DOMAIN writeQ : ~writeQ[j].stop}} \cup peerInbox

CreateReturnedFrom(st) ==
    /\ createCall.pc = "returned"
    /\ createCall.state = st

\* C23: create_session and resume_session entered while the state is not Connected:
\* with auto_start they first run start() and never fail with NotConnected, and when
\* they return Ok the state is Connected and the session of the returned id is in the
\* registry; without auto_start they return NotConnected, and the call sends nothing
\* and leaves the state and the registry as they were.
C23_CreateWhileNotConnected ==
    /\ [](\A st \in {"Disconnected", "Error"} :
             CreateReturnedFrom(st) =>
                IF autoStart
                THEN /\ createCall.out # "not_connected"
                     /\ createCall.out = "ok" =>
                           /\ state = "Connected"
                           /\ starts > 0
                           /\ reqOut[CreateCaller].body.sid \in sessions
                ELSE createCall.out = "not_connected")
    /\ [][createCall.pc # "start" /\ createCall'.pc = "start" =>
             /\ autoStart
             /\ starts' = starts + 1
             /\ state' = "Connecting"]_vars
    /\ [][createCall' # createCall /\ createCall'.out = "not_connected" =>
             UNCHANGED <<state, sessions, writeQ, peerInbox, pending, reqPc>>]_vars

\* resume_session was called on a client that had never been started, ran start() and
\* returned Ok
C23_Witness ==
    /\ autoStart
    /\ CreateReturnedFrom("Disconnected")
    /\ createCall.kind = "resume"
    /\ createCall.out = "ok"
    /\ installs = 1

(***************************************************************************)
(* Claims about the disconnect callback and the reconnection.              *)
(***************************************************************************)
\* the read worker leaves its loop in this step
ReaderLeaves == readerPc # "exited" /\ readerPc' = "exited"

\* C27: the step in which the read worker leaves its loop - on EOF or a read error, or
\* on finding running false after stop() - invokes the callback installed on the engine
\* once; no other step invokes it, so it is never invoked while the read worker is
\* running and never more than once.
C27_DisconnectCallbackOnceAtExit ==
    /\ [][/\ ReaderLeaves => disconnects' = IF onDisconnectSet THEN 1 ELSE 0
          /\ disconnects' # disconnects => ReaderLeaves \/ disconnects' = 0]_vars
    /\ [](/\ readerPc # "exited" => disconnects = 0
          /\ disconnects <= 1)

\* the engine was stopped with the peer's end still open, the read worker has left its
\* loop and the callback has been invoked
C27_Witness ==
    /\ readerPc = "exited"
    /\ ~running
    /\ peerOpen
    /\ disconnects = 1

\* the callback of the engine has fired with the state Connected and auto_restart
\* set, and the task of spawn_disconnect_handler is waiting for it
ConnectionLostWhileConnected ==
    /\ disconnects > 0
    /\ rcPc = "waiting"
    /\ autoRestart
    /\ state = "Connected"

\* start() has been entered again since n calls, and has returned with the state
\* Connected or Error
RestartedSince(n) ==
    /\ starts > n
    /\ startPc = "returned"
    /\ state \in {"Connected", "Error"}

\* C24: with auto_restart, once the connection is lost while the state is Connected,
\* start() is eventually entered again (Connecting) and returns with the state
\* Connected or Error; the client does not stay in between.
C24_LostConnectionIsRestarted ==
    \A n \in 0..(MaxStarts + 1) :
        (ConnectionLostWhileConnected /\ starts = n) ~> RestartedSince(n)

\* the same, for a client that has no session registered when the connection is lost
C24_RestartedWithoutSessions ==
    \A n \in 0..(MaxStarts + 1) :
        (ConnectionLostWhileConnected /\ starts = n /\ sessions = {}
            /\ createCall.pc \in {"idle", "returned"})
          ~> RestartedSince(n)

\* reconnect is past invalidate_sessions and has not yet re-entered start()
TearingDown == rcPc \in {"stop", "stopping", "restart"}

\* the synthetic error event is held by every receiver of the entry's session that
\* was live when dispatch_error was called, and has been handed to the on() callbacks
\* of the session, if it has any
ErrorDelivered(n) ==
    /\ \A r \in n.subscribers :
          \E i \in DOMAIN receivers[n.sid][r].buf :
             receivers[n.sid][r].buf[i] = Event("session.error", ConnectionLost)
    /\ handlers[n.sid] # <<>> =>
          \E i \in DOMAIN delivered[n.sid] : delivered[n.sid][i] = ConnectionLost

\* C25: once reconnect has begun to tear the connection down, every session that was
\* in the registry when the disconnect callback fired has had the synthetic error event
\* delivered to its subscribers, and that was done while the state was still Connected
\* and before start() was entered again.
C25_SessionsNotifiedBeforeTeardown ==
    TearingDown =>
       \A s \in lostSessions :
          \E n \in lostNotified :
             /\ n.sid = s
             /\ n.state = "Connected"
             /\ n.starts = starts
             /\ ErrorDelivered(n)

\* the callback fired with a session registered that the host had subscribed to, and
\* reconnect is inside stop()
C25_Witness ==
    /\ rcPc = "stopping"
    /\ lostSessions # {}
    /\ \A s \in lostSessions :
          \E n \in lostNotified : n.sid = s /\ "host" \in n.subscribers /\ ErrorDelivered(n)

\* C26: once the read worker has left its loop on EOF or on a read error, without
\* stop() having been called, the state does not stay Connected.
C26_LostConnectionLeavesConnected ==
    (readerPc = "exited" /\ state = "Connected" /\ stopPc = "idle") ~> state # "Connected"

(***************************************************************************)
(* Claims about the subscription of send_and_wait.                         *)
(***************************************************************************)
\* the receivers of session s that are subscribed, send_and_wait's own aside
OtherSubscriptions(rxs) == {r \in ReceiverIds \ {"saw"} : rxs[r].live}

\* C34: once send_and_wait has returned - with the idle event, a session error, a
\* failure of send() or a timeout - its receiver is no longer subscribed, and no step
\* of the call subscribes or drops any other receiver of the session: the session has
\* the subscriptions it had before the call.
C34_SendAndWaitReleasesSubscription ==
    /\ [](sawPc = "returned" => \A s \in SessionIds : ~receivers[s]["saw"].live)
    /\ [][sawPc' # sawPc =>
             \A s \in SessionIds :
                OtherSubscriptions(receivers'[s]) = OtherSubscriptions(receivers[s])]_vars

\* send_and_wait has returned on the timeout, having taken an assistant message from
\* its receiver
C34_Witness ==
    /\ sawPc = "returned"
    /\ sawOut.kind = "timeout"
    /\ sawLast # 0


(***************************************************************************)
(* Claims about stopping the engine.                                       *)
(***************************************************************************)
\* the steps of the two worker tasks, which the runtime keeps scheduling
WorkerSteps == WriterCheck \/ WriterRecv \/ ReaderCheck \/ ReaderEof \/ ReaderNotification

\* SpecDisconnectFair: SpecDisconnect in which neither worker is starved
SpecDisconnectFair == SpecDisconnect /\ WF_vars(WorkerSteps)

\* C35: once the engine's stop() has been called, the read worker and the write worker
\* both exit in the end, whatever the peer does, a peer that stays silent with the
\* connection open included
C35_StopEndsBothWorkers == ~running ~> (readerPc = "exited" /\ writerPc = "exited")

\* the half of it that concerns the write worker alone
C35_StopEndsWriter == ~running ~> writerPc = "exited"


(***************************************************************************)
(* read_content_length (jsonrpc.rs 414-450) and the head of read_loop      *)
(* (359-375), on the bytes of the transport.  A string is the sequence of  *)
(* its characters.                                                         *)
(***************************************************************************)
CR == "\r"
LF == "\n"
SP == " "

\* const MAX_MESSAGE_SIZE: usize = 100 * 1024 * 1024
MAX_MESSAGE_SIZE == 100 * 1024 * 1024

DigitChars == <<"0", "1", "2", "3", "4", "5", "6", "7", "8", "9">>
IsDigit(c) == \E d \in 1..10 : DigitChars[d] = c
DigitVal(c) == (CHOOSE d \in 1..10 : DigitChars[d] = c) - 1

\* the decimal numeral of n, as format!("{}", n) writes it
RECURSIVE Numeral(_)
Numeral(n) == IF n < 10 THEN <<DigitChars[n + 1]>>
              ELSE Append(Numeral(n \div 10), DigitChars[(n % 10) + 1])

\* usize::MAX on a 64-bit target, 2^64 - 1
UsizeMaxNumeral == <<"1", "8", "4", "4", "6", "7", "4", "4", "0", "7", "3", "7", "0", "9",
                     "5", "5", "1", "6", "1", "5">>

RECURSIVE StripZeros(_)
StripZeros(ds) == IF Len(ds) > 1 /\ Head(ds) = "0" THEN StripZeros(Tail(ds)) ELSE ds

\* a > b for two numerals without leading zeros
RECURSIVE NumeralGreater(_, _)
NumeralGreater(a, b) ==
    IF Len(a) # Len(b) THEN Len(a) > Len(b)
    ELSE IF a = <<>> THEN FALSE
    ELSE IF Head(a) # Head(b) THEN DigitVal(Head(a)) > DigitVal(Head(b))
    ELSE NumeralGreater(Tail(a), Tail(b))

\* the number a numeral denotes
RECURSIVE NumeralValue(_)
NumeralValue(ds) == IF ds = <<>> THEN 0
                    ELSE 10 * NumeralValue(SubSeq(ds, 1, Len(ds) - 1)) + DigitVal(ds[Len(ds)])

\* char::is_whitespace, on the characters that occur
IsWhitespace(c) == c \in {SP, CR, LF, "\t"}

\* str::trim
RECURSIVE TrimStart(_)
TrimStart(s) == IF s # <<>> /\ IsWhitespace(Head(s)) THEN TrimStart(Tail(s)) ELSE s
RECURSIVE TrimEnd(_)
TrimEnd(s) == IF s # <<>> /\ IsWhitespace(s[Len(s)]) THEN TrimEnd(SubSeq(s, 1, Len(s) - 1))
              ELSE s
Trim(s) == TrimEnd(TrimStart(s))

\* str::parse::<usize>(): an optional "+", then one digit or more and nothing else, and
\* the value fits a usize
ParseUsize(s) ==
    LET ds == IF s # <<>> /\ Head(s) = "+" THEN Tail(s) ELSE s IN
    [ok |-> /\ ds # <<>>
            /\ \A i \in 1..Len(ds) : IsDigit(ds[i])
            /\ ~NumeralGreater(StripZeros(ds), UsizeMaxNumeral),
     digits |-> StripZeros(ds)]

\* str::strip_prefix: Some(rest) when the line starts with the prefix, character by
\* character
StripPrefix(line, prefix) ==
    IF Len(line) >= Len(prefix) /\ SubSeq(line, 1, Len(prefix)) = prefix
    THEN [some |-> TRUE, rest |-> SubSeq(line, Len(prefix) + 1, Len(line))]
    ELSE [some |-> FALSE, rest |-> <<>>]

\* "Content-Length: "
ContentLengthPrefix == <<"C", "o", "n", "t", "e", "n", "t", "-", "L", "e", "n", "g", "t",
                         "h", ":", " ">>

\* AsyncBufReadExt::read_line: the bytes up to and including the first "\n", or all
\* that is left before the end of the stream
LineEnd(s) == IF \E i \in 1..Len(s) : s[i] = LF
              THEN CHOOSE i \in 1..Len(s) : s[i] = LF /\ \A j \in 1..(i - 1) : s[j] # LF
              ELSE Len(s)
ReadLine(s) == SubSeq(s, 1, LineEnd(s))

\* line == "\r\n" || line == "\n"
IsBlankLine(line) == line = <<CR, LF>> \/ line = <<LF>>

\* len > MAX_MESSAGE_SIZE
TooLarge(digits) == NumeralGreater(digits, Numeral(MAX_MESSAGE_SIZE))

\* what one header line does to content_length (435-446): "too_large", or the new value
HeaderLine(line, len) ==
    LET stripped == StripPrefix(line, ContentLengthPrefix)
        parsed == ParseUsize(Trim(stripped.rest))
    IN IF stripped.some /\ parsed.ok
       THEN IF TooLarge(parsed.digits)
            THEN [err |-> TRUE, len |-> len]
            ELSE [err |-> FALSE, len |-> NumeralValue(parsed.digits)]
       ELSE [err |-> FALSE, len |-> len]

hdrRest == <<reqVars, workerVars, handlerVars, notifVars, wireVars, clientVars, startVars,
             regVars, taskVars, onVars, sessVars, histVars, optVars, arcVars, createCall,
             destroyAgain, notifyLog, sentNotes, lostSessions, lostNotified, stopEntry,
             hdrBlock, raceVars, procVars>>

HdrOutcome(res, len) == [res |-> res, len |-> len]

\* one turn of the loop of read_content_length (424-447)
HdrReadLine ==
    /\ hdrPc = "header"
    /\ LET line == ReadLine(hdrStream)
           after == HeaderLine(line, hdrLen)
       IN /\ hdrStream' = SubSeq(hdrStream, Len(line) + 1, Len(hdrStream))
          /\ IF line = <<>>
             THEN \* bytes_read == 0: Err(UnexpectedEof), and read_loop breaks
                  /\ hdrPc' = "exited"
                  /\ hdrLog' = Append(hdrLog, HdrOutcome("eof", hdrLen))
                  /\ UNCHANGED hdrLen
             ELSE IF IsBlankLine(line)
             THEN \* break; Ok(Some(content_length))
                  /\ hdrPc' = "returned"
                  /\ hdrLog' = Append(hdrLog, HdrOutcome("ok", hdrLen))
                  /\ UNCHANGED hdrLen
             ELSE IF after.err
             THEN \* Err(InvalidData), and read_loop breaks
                  /\ hdrPc' = "exited"
                  /\ hdrLog' = Append(hdrLog, HdrOutcome("too_large", hdrLen))
                  /\ UNCHANGED hdrLen
             ELSE /\ hdrLen' = after.len
                  /\ UNCHANGED <<hdrPc, hdrLog>>
    /\ UNCHANGED <<hdrAlloc, hdrBodies, hdrRest>>

\* if content_length == 0 { continue }: where read_loop goes with the length it got
AfterLength(len) == IF len = 0 THEN "header" ELSE "body"

\* if content_length == 0 { continue }; let mut body = vec![0u8; content_length]
HdrLength ==
    /\ hdrPc = "returned"
    /\ hdrPc' = AfterLength(hdrLen)
    /\ hdrAlloc' = IF hdrLen = 0 THEN hdrAlloc ELSE Append(hdrAlloc, hdrLen)
    /\ UNCHANGED <<hdrStream, hdrLen, hdrLog, hdrBodies, hdrRest>>

\* reader.read_exact(&mut body): the body, or an error when the stream ends before it
\* is whole; then the next call of read_content_length starts from zero
HdrReadBody ==
    /\ hdrPc = "body"
    /\ IF Len(hdrStream) >= hdrLen
       THEN /\ hdrStream' = SubSeq(hdrStream, hdrLen + 1, Len(hdrStream))
            /\ hdrBodies' = hdrBodies + 1
            /\ hdrPc' = "header"
            /\ hdrLen' = 0
       ELSE /\ hdrPc' = "exited"
            /\ UNCHANGED <<hdrStream, hdrBodies, hdrLen>>
    /\ UNCHANGED <<hdrLog, hdrAlloc, hdrRest>>


(***************************************************************************)
(* The bytes a peer may write: one header block of up to MaxHeaderLines    *)
(* lines and its blank line, a body or none, then one well-formed frame,   *)
(* then the end of the stream.                                             *)
(***************************************************************************)
MaxHeaderLines == 2

HeaderKeys == {<<"C", "o", "n", "t", "e", "n", "t", "-", "L", "e", "n", "g", "t", "h">>,
               <<"c", "o", "n", "t", "e", "n", "t", "-", "l", "e", "n", "g", "t", "h">>,
               <<"C", "o", "n", "t", "e", "n", "t", "-", "T", "y", "p", "e">>}
HeaderSeparators == {<<":", SP>>, <<":">>, <<SP, ":", SP>>}

\* 2^64, one more than a usize holds
BeyondUsize == <<"1", "8", "4", "4", "6", "7", "4", "4", "0", "7", "3", "7", "0", "9",
                 "5", "5", "1", "6", "1", "6">>
SmallBody == <<"[", "1", ",", "2", "]">>
HeaderValues == {Numeral(0), Numeral(Len(SmallBody)), Numeral(MAX_MESSAGE_SIZE),
                 Numeral(MAX_MESSAGE_SIZE + 1), BeyondUsize, <<"j", "s", "o", "n">>}

HeaderLines == [key : HeaderKeys, sep : HeaderSeparators, val : HeaderValues]
HeaderText(h) == h.key \o h.sep \o h.val \o <<CR, LF>>
HeaderBlocks == UNION {[1..n -> HeaderLines] : n \in 0..MaxHeaderLines}

RECURSIVE Concat(_)
Concat(ss) == IF ss = <<>> THEN <<>> ELSE HeaderText(Head(ss)) \o Concat(Tail(ss))

\* the frame write_loop would write for SmallBody (325-335)
WellFormedFrame ==
    ContentLengthPrefix \o Numeral(Len(SmallBody)) \o <<CR, LF, CR, LF>> \o SmallBody

PeerStream(block, body) == Concat(block) \o <<CR, LF>> \o body \o WellFormedFrame

InitHeaders ==
    /\ InitEngine /\ InitClient(FALSE) /\ InitSession /\ InitOptions(TRUE, TRUE)
    /\ InitNoOverlap
    /\ \E block \in HeaderBlocks, body \in {<<>>, SmallBody} :
          hdrStream = PeerStream(block, body) /\ hdrBlock = block
    /\ hdrPc = "header"
    /\ hdrLen = 0
    /\ hdrLog = <<>>
    /\ hdrAlloc = <<>>
    /\ hdrBodies = 0

\* SpecHeaders: the read worker reads what the peer wrote, header line by header line
NextHeaders == HdrReadLine \/ HdrLength \/ HdrReadBody

SpecHeaders == InitHeaders /\ [][NextHeaders]_vars


(***************************************************************************)
(* Claims about the framing the read worker accepts.                       *)
(***************************************************************************)
CanonicalKey == SubSeq(ContentLengthPrefix, 1, Len(ContentLengthPrefix) - 2)
CanonicalSeparator == <<":", SP>>
IsNumeral(val) == \A i \in 1..Len(val) : IsDigit(val[i])

\* the line is "Content-Length: <numeral>"
CanonicalLength(h) == h.key = CanonicalKey /\ h.sep = CanonicalSeparator /\ IsNumeral(h.val)

\* the first header block has been dealt with: read_content_length has returned once
FirstBlockRead == hdrLog # <<>>

\* the block names a length above MAX_MESSAGE_SIZE in a canonical line
ExceedsCeiling(block) ==
    \E i \in 1..Len(block) :
       CanonicalLength(block[i]) /\ NumeralGreater(block[i].val, Numeral(MAX_MESSAGE_SIZE))

\* the block is the one line "Content-Length: <MAX_MESSAGE_SIZE>"
AtCeiling(block) ==
    block = <<[key |-> CanonicalKey, sep |-> CanonicalSeparator,
               val |-> Numeral(MAX_MESSAGE_SIZE)]>>

\* C36: a header block whose Content-Length exceeds MAX_MESSAGE_SIZE makes the read
\* worker exit with an error before a body buffer is allocated and before a body byte
\* is read; a Content-Length equal to MAX_MESSAGE_SIZE is accepted
C36_OversizeIsFatalBeforeBody ==
    /\ FirstBlockRead /\ ExceedsCeiling(hdrBlock) =>
          /\ hdrLog = <<HdrOutcome("too_large", hdrLog[1].len)>>
          /\ hdrPc = "exited"
          /\ hdrAlloc = <<>>
          /\ hdrBodies = 0
    /\ FirstBlockRead /\ AtCeiling(hdrBlock) => hdrLog[1] = HdrOutcome("ok", MAX_MESSAGE_SIZE)

\* the same for the lengths a usize can hold
C36_OversizeWithinUsize ==
    /\ FirstBlockRead /\ ExceedsCeiling(hdrBlock)
          /\ (\A i \in 1..Len(hdrBlock) : hdrBlock[i].val # BeyondUsize) =>
          /\ hdrLog = <<HdrOutcome("too_large", hdrLog[1].len)>>
          /\ hdrPc = "exited"
          /\ hdrAlloc = <<>>
          /\ hdrBodies = 0
    /\ FirstBlockRead /\ AtCeiling(hdrBlock) => hdrLog[1] = HdrOutcome("ok", MAX_MESSAGE_SIZE)

\* the letters of the keys, in lower case
Lower(c) == IF c = "C" THEN "c" ELSE IF c = "L" THEN "l" ELSE IF c = "T" THEN "t" ELSE c
LowerAll(s) == [i \in 1..Len(s) |-> Lower(s[i])]

\* the key of the line is Content-Length in some letter case
IsContentLength(h) == LowerAll(h.key) = LowerAll(CanonicalKey)

\* the block has a header line and none of its lines is a Content-Length header
LacksContentLength(block) ==
    Len(block) >= 1 /\ \A i \in 1..Len(block) : ~IsContentLength(block[i])

\* the block is the one line "Content-Length: 0"
DeclaresZero(block) ==
    block = <<[key |-> CanonicalKey, sep |-> CanonicalSeparator, val |-> Numeral(0)]>>

\* C37: a header block with a header line and no Content-Length header is fatal to the
\* connection, the read worker exits; a frame that declares a body of length zero is
\* skipped and the next frame is read
C37_MissingLengthIsFatal ==
    /\ FirstBlockRead /\ LacksContentLength(hdrBlock) =>
          hdrLog[1].res # "ok" /\ hdrPc = "exited" /\ hdrBodies = 0
    /\ FirstBlockRead /\ DeclaresZero(hdrBlock) =>
          /\ hdrLog[1] = HdrOutcome("ok", 0)
          /\ Len(hdrLog) = 1 => hdrPc \in {"returned", "header"} /\ hdrAlloc = <<>>

\* the half of it about the body of length zero
C37_ZeroLengthIsSkipped ==
    FirstBlockRead /\ DeclaresZero(hdrBlock) =>
       /\ hdrLog[1] = HdrOutcome("ok", 0)
       /\ Len(hdrLog) = 1 => hdrPc \in {"returned", "header"} /\ hdrAlloc = <<>>

\* the block is one Content-Length line, in any letter case and with any blanks around
\* the colon, whose value is the numeral of n
DeclaresLength(block, n) ==
    Len(block) = 1 /\ IsContentLength(block[1]) /\ block[1].val = Numeral(n)

\* C38: Content-Length is recognised whatever the letter case of its key and whatever
\* the blanks around the colon, and gives the body length that "Content-Length: 5" gives
C38_HeaderMatchingIsLenient ==
    FirstBlockRead /\ DeclaresLength(hdrBlock, Len(SmallBody)) =>
       hdrLog[1] = HdrOutcome("ok", Len(SmallBody))

\* the canonical form alone
C38_CanonicalHeaderIsRead ==
    FirstBlockRead /\ DeclaresLength(hdrBlock, Len(SmallBody))
       /\ CanonicalLength(hdrBlock[1]) => hdrLog[1] = HdrOutcome("ok", Len(SmallBody))


(***************************************************************************)
(* Claims about the guards held around caller-supplied code.               *)
(***************************************************************************)
\* the host's tool handler is running, or is awaiting an RPC it issued
ToolHandlerRunning == hPc \in {"tool", "tool_wait"}

\* C32: no guard on the session registry is held while a tool handler supplied by the
\* host runs or awaits an RPC, so that a handler calling back into the client or the
\* session finds every lock free
C32_NoGuardWhileCallerCodeRuns == ToolHandlerRunning => sessReaders = 0

\* the tool handler awaits an RPC while the tool.call handler holds the registry's read
\* guard
C32_GuardHeldAcrossRpc == hPc = "tool_wait" /\ sessReaders > 0


(***************************************************************************)
(* Claims about the lifecycle of the connection state (types.rs 9-21).     *)
(***************************************************************************)
\* SpecLifecycle: the host calls start() and force_stop() on a new client at any time,
\* one call within the other included; the server answers the ping or not
NextLifecycle ==
    \/ StartSteps
    \/ StopBegin("force_stop")
    \/ StopClear \/ StopRpc
    \/ RequestSteps
    \/ WriterCheck \/ WriterRecv
    \/ ReaderCheck \/ ReaderEof \/ ReaderResponse
    \/ \E req \in peerInbox, version \in Versions : PeerPong(req, version)
    \/ \E req \in peerInbox : PeerRespond(req, "string", FALSE)

SpecLifecycle == InitStart /\ [][NextLifecycle]_vars

\* the edges of the lifecycle
LifecycleEdge(from, to) ==
    \/ from \in {"Disconnected", "Error"} /\ to = "Connecting"
    \/ from = "Connecting" /\ to \in {"Connected", "Error"}
    \/ to = "Disconnected"

\* C33: in every execution, concurrent start and stop calls included, the connection
\* state changes along the lifecycle edges only: Disconnected or Error to Connecting,
\* Connecting to Connected or to Error, and any state to Disconnected
C33_StateFollowsLifecycle == [][state' # state => LifecycleEdge(state, state')]_vars

\* the same while no stop is in progress or has returned
C33_LifecycleWithoutStop ==
    [][state' # state /\ stopPc = "idle" => LifecycleEdge(state, state')]_vars


(***************************************************************************)
(* The host's own stop() on a client started with start_arc, against the   *)
(* disconnect handler task (client.rs 203-259, 603-667).                   *)
(***************************************************************************)
hostRest == <<optVars, hdrVars, start2Pc, start2Out, procVars, arcVars, createCall,
              destroyAgain, notifyLog, sentNotes, lostSessions, lostNotified>>

\* the host calls stop()
HostStop ==
    /\ hostStop.pc = "none"
    /\ StopCall("stop")
    /\ hostStop' = [hostStop EXCEPT !.pc = "called"]
    /\ UNCHANGED hostRest

\* ... and the call returns its errors
HostStopReturned ==
    /\ hostStop.pc = "called"
    /\ stopPc = "returned"
    /\ stopPc' = "idle"
    /\ hostStop' = [pc |-> "returned", spawns |-> spawns, installs |-> installs]
    /\ UNCHANGED <<reqVars, workerVars, handlerVars, notifVars, wireVars, isExternal,
                   rpcInstalled, state, stopKind, stopTodo, stopErrors, startVars,
                   regVars, taskVars, onVars, sessVars, histVars, stopEntry, hostRest>>

\* SpecHostStop: the host calls start_arc() on a new client and, once it is Connected,
\* stop(); the server answers the pings and never closes of its own accord; the host
\* makes no other call
SdkHostStopSteps ==
    \/ \E ok \in BOOLEAN : StartSpawn(ok) \/ StartConnect(ok)
    \/ StartVerify \/ StartVerified
    \/ ArcSteps
    \/ RcRecv \/ RcSnapshot \/ RcDisconnected \/ RcStop \/ RcStopped \/ RcRestart
    \/ StopClear \/ StopRpc
    \/ RequestSteps
    \/ WriterCheck \/ WriterRecv
    \/ ReaderCheck \/ ReaderEof \/ ReaderResponse

NextHostStop ==
    \/ HostStartArc
    \/ state = "Connected" /\ arcPc = "returned" /\ rcPc # "start" /\ HostStop
    \/ HostStopReturned
    \/ SdkHostStopSteps
    \/ PeerAnswersPing

SpecHostStop == InitRestart /\ [][NextHostStop]_vars

(***************************************************************************)
(* Claims about stop() and auto-restart.                                   *)
(***************************************************************************)
\* C39: a stop() of the host never triggers auto-restart: once it has returned, and
\* with no start called after it, the state stays Disconnected, no server process is
\* spawned and no engine is installed
C39_HostStopIsFinal ==
    hostStop.pc = "returned" =>
       /\ state = "Disconnected"
       /\ spawns = hostStop.spawns
       /\ installs = hostStop.installs

\* the same on a client built without auto_restart
C39_HostStopIsFinalWithoutRestart ==
    hostStop.pc = "returned" /\ ~autoRestart =>
       /\ state = "Disconnected"
       /\ spawns = hostStop.spawns
       /\ installs = hostStop.installs


(***************************************************************************)
(* A second start() call of the host, made at any time: the same code      *)
(* (client.rs 156-198) run by another task.  An engine that a later        *)
(* install replaces is not followed further: a ping that was in flight on  *)
(* it stays unanswered here.                                               *)
(***************************************************************************)
start2Rest == <<optVars, hdrVars, hostStop, arcVars, createCall, destroyAgain, notifyLog,
                sentNotes, lostSessions, lostNotified, stopEntry>>

Start2Returns(out) ==
    /\ start2Pc' = "returned"
    /\ start2Out' = out

\* *state = ConnectionState::Error; return Err(e)
Start2Fails(out) ==
    /\ state' = "Error"
    /\ Start2Returns(out)

\* if *state == Connected { return Ok(()) }; *state = Connecting
Start2Begin ==
    /\ start2Pc = "idle"
    /\ IF state = "Connected"
       THEN Start2Returns("ok") /\ UNCHANGED state
       ELSE /\ state' = "Connecting"
            /\ start2Pc' = IF isExternal THEN "connect" ELSE "spawn"
            /\ UNCHANGED start2Out
    /\ UNCHANGED <<reqVars, workerVars, handlerVars, notifVars, wireVars, isExternal,
                   rpcInstalled, stopPc, stopKind, stopTodo, stopErrors, startVars,
                   procVars, regVars, taskVars, onVars, sessVars, histVars, start2Rest>>

\* start_cli_server
Start2Spawn(ok) ==
    /\ start2Pc = "spawn"
    /\ IF ok
       THEN /\ InstallEngine
            /\ SpawnOwned
            /\ start2Pc' = "verify"
            /\ UNCHANGED <<state, start2Out>>
       ELSE /\ Start2Fails("process_error")
            /\ UNCHANGED <<engineVars, spawns, procVars>>
    /\ UNCHANGED <<slot, reqArg, reqOut, handlerVars, notifLog, isExternal, stopPc,
                   stopKind, stopTodo, stopErrors, startPc, startOut, starts, startEntry,
                   regVars, taskVars, onVars, sessVars, histVars, start2Rest>>

\* connect_via_tcp
Start2Connect(ok) ==
    /\ start2Pc = "connect"
    /\ IF ok
       THEN /\ InstallEngine
            /\ start2Pc' = "verify"
            /\ UNCHANGED <<state, start2Out>>
       ELSE /\ Start2Fails("connection_error")
            /\ UNCHANGED engineVars
    /\ UNCHANGED <<slot, reqArg, reqOut, handlerVars, notifLog, isExternal, stopPc,
                   stopKind, stopTodo, stopErrors, startPc, startOut, starts, startEntry,
                   spawns, procVars, regVars, taskVars, onVars, sessVars, histVars,
                   start2Rest>>

\* verify_protocol_version: self.ping(None)
Start2Verify ==
    /\ start2Pc = "verify"
    /\ BeginRequest(Start2Caller, "ping", Body(0, "", 0))
    /\ start2Pc' = "ping"
    /\ UNCHANGED <<pending, slot, reqOut, workerVars, handlerVars, notifVars, wireVars,
                   clientVars, startVars, procVars, regVars, taskVars, onVars, sessVars,
                   histVars, start2Out, start2Rest>>

\* the ping has returned
Start2Verified ==
    /\ start2Pc = "ping"
    /\ reqPc[Start2Caller] = "done"
    /\ LET r == reqOut[Start2Caller] IN
       IF r.kind # "ok" THEN Start2Fails("request_error")
       ELSE IF r.body.typ = "" THEN Start2Fails("not_reported")
       ELSE IF ~VersionAccepted(r.body.typ) THEN Start2Fails("mismatch")
       ELSE state' = "Connected" /\ Start2Returns("ok")
    /\ UNCHANGED <<reqVars, workerVars, handlerVars, notifVars, wireVars, isExternal,
                   rpcInstalled, stopPc, stopKind, stopTodo, stopErrors, startVars,
                   procVars, regVars, taskVars, onVars, sessVars, histVars, start2Rest>>

Start2Steps ==
    \/ Start2Begin
    \/ \E ok \in BOOLEAN : Start2Spawn(ok) \/ Start2Connect(ok)
    \/ Start2Verify \/ Start2Verified

\* SpecStartTwice: the host calls start() on a new client from two tasks, in any
\* interleaving; the server answers the pings or not
NextStartTwice ==
    \/ StartSteps
    \/ Start2Steps
    \/ RequestSteps
    \/ WriterCheck \/ WriterRecv
    \/ ReaderCheck \/ ReaderResponse
    \/ \E req \in peerInbox, version \in Versions : PeerPong(req, version)
    \/ \E req \in peerInbox : PeerRespond(req, "string", FALSE)

SpecStartTwice == InitStart /\ [][NextStartTwice]_vars

(***************************************************************************)
(* Claims about concurrent start() calls.                                  *)
(***************************************************************************)
\* the step installs an engine
Installs == installs' > installs

\* C40: whatever the interleaving of concurrent start() calls, at most one server
\* process is spawned and at most one engine is installed at a time, and no spawned
\* process runs without being owned by the client
C40_OneProcessOneEngine ==
    /\ [](procs <= 1 /\ procs = procOwned)
    /\ [][Installs => ~rpcInstalled]_vars

\* the same while one start() call runs at a time
C40_OneStartAtATime ==
    /\ [](start2Pc = "idle" => procs <= 1 /\ procs = procOwned)
    /\ [][Installs /\ start2Pc = "idle" /\ start2Pc' = "idle" => ~rpcInstalled]_vars

=============================================================================
